---------------------------- MODULE Spec2Model ----------------------------
(***************************************************************************)
(* A model of src/backend/optimizer/prep/prepunion.c: the planner of       *)
(* UNION / INTERSECT / EXCEPT trees (plan_set_operations and its           *)
(* subroutines), the hash-versus-sort chooser (choose_hashed_setop) and    *)
(* the expansion of inheritance sets (expand_inherited_tables).            *)
(*                                                                         *)
(* The specifications that share the module:                               *)
(*   SpecChoose  choose_hashed_setop as a pure function of its inputs      *)
(*   Spec        plan_set_operations over a bounded set of set-op trees    *)
(*   SpecRec     the same, the topmost UNION recursive or not              *)
(*   SpecTlist   generate_append_tlist and generate_setop_grouplist        *)
(*   SpecInh     expand_inherited_tables over a bounded catalog            *)
(*   SpecTrans   make_inh_translation_list and translate_col_privs         *)
(*   SpecAdjust  adjust_appendrel_attrs over a heap of nodes               *)
(***************************************************************************)
EXTENDS Integers, Sequences, FiniteSets, TLC

VARIABLES
    \* ---- choose_hashed_setop called on its own (SpecChoose)
    ch,             \* the inputs of one call of choose_hashed_setop
    chres,          \* its outcome, or NoResult before the call
    \* ---- plan_set_operations (Spec)
    parse,          \* root->parse: the set-operation tree and the leaf subqueries
    root,           \* PlannerInfo: tuple_fraction, hasRecursion, non_recursive_path
    stack,          \* the C call stack: one frame per active function call
    ret,            \* the value returned by the call that returned last
    pc,             \* "idle" | "run" | "done" | "error"
    errmsg,         \* the message of the error raised (ereport/elog), or NoError
    decisions,      \* every call of choose_hashed_setop so far, in call order
    entry_fraction, \* root->tuple_fraction when plan_set_operations was entered
    \* ---- expand_inherited_tables (SpecInh)
    inh,            \* the planner state seen by expand_inherited_rtentry
    \* ---- functions called one at a time (SpecTrans, SpecAdjust, SpecTlist)
    call,           \* the arguments of the call
    callres         \* what the call returned or raised, or NoResult before it

vars == <<ch, chres, parse, root, stack, ret, pc, errmsg, decisions, entry_fraction, inh,
         call, callres>>

planvars == <<parse, root, stack, ret, pc, errmsg, decisions, entry_fraction>>

choosevars == <<ch, chres>>

callvars == <<call, callres>>

-----------------------------------------------------------------------------
(* Bounds of the model *)

\* costs produced by the external cost functions are drawn from 1..MaxCost
MaxCost == 3

\* work_mem (in kilobytes) is drawn from 1..MaxWorkMem
MaxWorkMem == 2

\* a set operation groups on at most MaxGroupCols columns
MaxGroupCols == 2

\* a set-operation tree has at most MaxLeaves leaf subqueries
MaxLeaves == 3

\* a set operation has at most MaxCols columns
MaxCols == 1

\* row and group estimates of a leaf subquery are drawn from 1..MaxRows
MaxRows == 2

-----------------------------------------------------------------------------
(* Platform constants used by choose_hashed_setop (c.h, htup_details.h) *)

MAXIMUM_ALIGNOF == 8

SizeofMinimalTupleHeader == 15

\* MAXALIGN(LEN): round LEN up to the next multiple of MAXIMUM_ALIGNOF
MAXALIGN(len) == ((len + (MAXIMUM_ALIGNOF - 1)) \div MAXIMUM_ALIGNOF) * MAXIMUM_ALIGNOF

-----------------------------------------------------------------------------
(* Fractions: a double that is a ratio of two small integers, <<num, den>> *)
(* with den > 0.  root->tuple_fraction is 0 (all tuples), a fraction in    *)
(* (0,1), or an absolute row count >= 1.                                   *)

Frac(n, d) == <<n, d>>

FracZero == Frac(0, 1)

FracGE1(f) == f[1] >= f[2]

FracLE0(f) == f[1] <= 0

FracDiv(f, k) == Frac(f[1], f[2] * k)

FracEq(f, g) == f[1] * g[2] = g[1] * f[2]

-----------------------------------------------------------------------------
(* External collaborators of choose_hashed_setop *)

\* tlist.c: every grouping clause has a sort operator
grouping_is_sortable(groupClauses) ==
    \A i \in 1..Len(groupClauses) : groupClauses[i].sortable

\* tlist.c: every grouping clause has a hashable equality operator
grouping_is_hashable(groupClauses) ==
    \A i \in 1..Len(groupClauses) : groupClauses[i].hashable

\* The cost of a path when only the fraction f of its output is fetched, scaled
\* by the denominator den (the same for both paths compared):
\* startup + f * (total - startup) for 0 < f < 1, the total cost otherwise.
AdjustedCost(p, f) ==
    IF FracLE0(f) \/ FracGE1(f)
      THEN p.total_cost * f[2]
      ELSE p.startup_cost * f[2] + f[1] * (p.total_cost - p.startup_cost)

\* pathnode.c: -1, 0 or +1 as path1 is cheaper than, equal to or more
\* expensive than path2 for fetching the given fraction
compare_fractional_path_costs(path1, path2, fraction) ==
    IF AdjustedCost(path1, fraction) < AdjustedCost(path2, fraction) THEN -1
    ELSE IF AdjustedCost(path1, fraction) > AdjustedCost(path2, fraction) THEN 1
    ELSE 0

-----------------------------------------------------------------------------
(* choose_hashed_setop - should we use hashing for a set operation?        *)
(*   tuple_fraction      root->tuple_fraction at the time of the call      *)
(*   env                 the settings and the results of the external cost *)
(*                       functions: enable_hashagg, work_mem, hashed_p     *)
(*                       (cost_agg), sorted_p (cost_sort + cost_group)     *)
(* The outcome is "hash" (true), "sort" (false) or "error" (ereport).      *)

Decision(outcome, msg) == [outcome |-> outcome, errmsg |-> msg]

NoError == <<>>

hashentrysize(width) == MAXALIGN(width) + MAXALIGN(SizeofMinimalTupleHeader)

\* the tuple fraction of the decision: an absolute count becomes a fraction
DecisionFraction(tuple_fraction, dNumOutputRows) ==
    IF FracGE1(tuple_fraction) THEN FracDiv(tuple_fraction, dNumOutputRows)
                               ELSE tuple_fraction

\* the mutant: the size of the hash table is not looked at
HashtableOverruns_unchecked(width, dNumGroups, work_mem) == FALSE

\* "Don't do it if it doesn't look like the hashtable will fit into work_mem"
HashtableOverruns(width, dNumGroups, work_mem) ==
    hashentrysize(width) * dNumGroups > work_mem * 1024

\* the mutant: a tie of the two costs selects hashing
HashedIsCheaperOrEqual(hashed_p, sorted_p, tuple_fraction) ==
    compare_fractional_path_costs(hashed_p, sorted_p, tuple_fraction) <= 0

\* "Hashed is cheaper, so use it"
HashedIsCheaper(hashed_p, sorted_p, tuple_fraction) ==
    compare_fractional_path_costs(hashed_p, sorted_p, tuple_fraction) < 0

\* the mutant: the settings are looked at before the operators' capabilities
choose_hashed_setop_settings_first(rt, groupClauses, input_path, dNumGroups, dNumOutputRows, construct, env) ==
    LET can_sort == grouping_is_sortable(groupClauses)
        can_hash == grouping_is_hashable(groupClauses)
    IN  IF ~env.enable_hashagg THEN Decision("sort", NoError)
        ELSE IF ~(can_hash /\ can_sort)
          THEN IF can_hash THEN Decision("hash", NoError)
               ELSE IF can_sort THEN Decision("sort", NoError)
               ELSE Decision("error", <<"could not implement", construct>>)
        ELSE IF HashtableOverruns(input_path.width, dNumGroups, env.work_mem)
          THEN Decision("sort", NoError)
        ELSE IF HashedIsCheaper(env.hashed_p, env.sorted_p,
                    DecisionFraction(rt.tuple_fraction, dNumOutputRows))
          THEN Decision("hash", NoError)
        ELSE Decision("sort", NoError)

choose_hashed_setop(rt, groupClauses, input_path, dNumGroups, dNumOutputRows, construct, env) ==
    LET can_sort == grouping_is_sortable(groupClauses)
        can_hash == grouping_is_hashable(groupClauses)
    IN  IF ~(can_hash /\ can_sort)
          THEN IF can_hash THEN Decision("hash", NoError)
               ELSE IF can_sort THEN Decision("sort", NoError)
               ELSE Decision("error", <<"could not implement", construct>>)
        \* Prefer sorting when enable_hashagg is off
        ELSE IF ~env.enable_hashagg THEN Decision("sort", NoError)
        ELSE IF HashtableOverruns(input_path.width, dNumGroups, env.work_mem)
          THEN Decision("sort", NoError)
        \* Now make the decision using the top-level tuple fraction
        ELSE IF HashedIsCheaper(env.hashed_p, env.sorted_p,
                    DecisionFraction(rt.tuple_fraction, dNumOutputRows))
          THEN Decision("hash", NoError)
        ELSE Decision("sort", NoError)

-----------------------------------------------------------------------------
(* The inputs of choose_hashed_setop *)

CostPaths ==
    { [startup_cost |-> s, total_cost |-> t] : s \in 1..MaxCost, t \in 1..MaxCost }

Costs == { p \in CostPaths : p.startup_cost <= p.total_cost }

Settings == [enable_hashagg : BOOLEAN, work_mem : 1..MaxWorkMem]

ChooseEnvs ==
    { [enable_hashagg |-> s.enable_hashagg, work_mem |-> s.work_mem,
       hashed_p |-> h, sorted_p |-> g] : s \in Settings, h \in Costs, g \in Costs }

\* one grouping clause of a set operation (SortGroupClause)
GroupClause(ref, canSort, canHash) ==
    [tleSortGroupRef |-> ref, sortable |-> canSort, hashable |-> canHash]

Constructs == {"UNION", "INTERSECT", "EXCEPT"}

TupleFractions == {Frac(0, 1), Frac(1, 2), Frac(1, 1), Frac(3, 1)}

Widths == {0, 12, 48}

GroupCounts == {1, 64, 100}

OutputRowCounts == {1, 4}

NoResult == Decision("none", NoError)

\* the capabilities of one grouping column: sortable and hashable, or one of them
ClauseCaps == {<<TRUE, TRUE>>, <<TRUE, FALSE>>, <<FALSE, TRUE>>}

\* the grouping clauses of 1..MaxGroupCols columns
GroupClauseLists ==
    UNION { { [i \in 1..n |-> GroupClause(0, c[i][1], c[i][2])] :
              c \in [1..n -> ClauseCaps] } : n \in 1..MaxGroupCols }

ChooseInputs ==
    [root : [tuple_fraction : TupleFractions], groupClauses : GroupClauseLists,
     input_path : [width : Widths], dNumGroups : GroupCounts,
     dNumOutputRows : OutputRowCounts, construct : Constructs, env : ChooseEnvs]

-----------------------------------------------------------------------------
(* Expressions and target lists *)

INT4OID == "int4"

NUMERICOID == "numeric"

InvalidOid == "none"

DefaultCollation == "default"

\* varno of the Vars of an upper-level target list (CDB: OUTER_VAR)
OUTER_VAR == "OUTER_VAR"

\* an expression node: Var, Const, a coercion (coerce_to_common_type) or a
\* RelabelType; arg is <<>> or the one argument
Expr(tag, varno, varattno, type, typmod, coll, arg) ==
    [tag |-> tag, varno |-> varno, varattno |-> varattno, type |-> type,
     typmod |-> typmod, collation |-> coll, arg |-> arg]

makeVar(varno, varattno, vartype, vartypmod, varcollid) ==
    Expr("Var", varno, varattno, vartype, vartypmod, varcollid, <<>>)

makeConst(consttype, consttypmod, constcollid, constvalue) ==
    Expr("Const", constvalue, 0, consttype, consttypmod, constcollid, <<>>)

coerce_to_common_type(expr, targetType) ==
    Expr("Coerce", 0, 0, targetType, -1, expr.collation, <<expr>>)

makeRelabelType(arg, rtype, rtypmod, rcollid) ==
    Expr("RelabelType", 0, 0, rtype, rtypmod, rcollid, <<arg>>)

exprType(expr) == expr.type

exprTypmod(expr) == expr.typmod

exprCollation(expr) == expr.collation

makeTargetEntry(expr, resno, resname, resjunk) ==
    [expr |-> expr, resno |-> resno, resname |-> resname,
     ressortgroupref |-> 0, resjunk |-> resjunk]

\* the average width of a value of a type (get_typavgwidth)
TypeWidth(type) == IF type = INT4OID THEN 4 ELSE 32

\* create_pathtarget: the width of a row of the target list
TlistWidth(tlist) ==
    LET RECURSIVE Sum(_)
        Sum(i) == IF i = 0 THEN 0 ELSE Sum(i - 1) + TypeWidth(exprType(tlist[i].expr))
    IN  Sum(Len(tlist))

Min(a, b) == IF a < b THEN a ELSE b

\* the mutant: the flag entry gets a sortgroupref as a column does
SetopFlagColumn_with_ref(flag, resno) ==
    [makeTargetEntry(makeConst(INT4OID, -1, InvalidOid, flag), resno, "flag", TRUE)
       EXCEPT !.ressortgroupref = resno]

\* the flag column of generate_setop_tlist: a resjunk Const holding the flag
SetopFlagColumn(flag, resno) ==
    makeTargetEntry(makeConst(INT4OID, -1, InvalidOid, flag), resno, "flag", TRUE)

\* the mutant: a column of another collation is not relabelled
SetopColumn_no_relabel(colType, colColl, varno, hack_constants, inputtle, reftle, resno) ==
    LET e1 == IF hack_constants /\ inputtle.expr.tag = "Const"
                THEN inputtle.expr
                ELSE makeVar(varno, inputtle.resno, exprType(inputtle.expr),
                             exprTypmod(inputtle.expr), exprCollation(inputtle.expr))
        e2 == IF exprType(e1) # colType THEN coerce_to_common_type(e1, colType) ELSE e1
    IN  [makeTargetEntry(e2, resno, reftle.resname, FALSE) EXCEPT !.ressortgroupref = resno]

\* one output column of generate_setop_tlist
SetopColumn(colType, colColl, varno, hack_constants, inputtle, reftle, resno) ==
    LET e1 == IF hack_constants /\ inputtle.expr.tag = "Const"
                THEN inputtle.expr
                ELSE makeVar(varno, inputtle.resno, exprType(inputtle.expr),
                             exprTypmod(inputtle.expr), exprCollation(inputtle.expr))
        e2 == IF exprType(e1) # colType THEN coerce_to_common_type(e1, colType) ELSE e1
        e3 == IF exprCollation(e2) # colColl
                THEN makeRelabelType(e2, exprType(e2), exprTypmod(e2), colColl)
                ELSE e2
    IN  [makeTargetEntry(e3, resno, reftle.resname, FALSE) EXCEPT !.ressortgroupref = resno]

\* Generate targetlist for a set-operation plan node
generate_setop_tlist(colTypes, colCollations, flag, varno, hack_constants, input_tlist, refnames_tlist) ==
    LET n == Min(Len(colTypes), Min(Len(colCollations), Len(input_tlist)))
        cols == [i \in 1..n |->
                   SetopColumn(colTypes[i], colCollations[i], varno, hack_constants,
                               input_tlist[i], refnames_tlist[i], i)]
    IN  IF flag >= 0 THEN Append(cols, SetopFlagColumn(flag, n + 1)) ELSE cols

\* the non-resjunk entries of a target list, in order
NonJunk(tlist) == SelectSeq(tlist, LAMBDA tle : ~tle.resjunk)

\* the mutant: only the last input list is looked at
AppendTypmod_last_sibling(colType, input_tlists, i, k) ==
    LET subtle == NonJunk(input_tlists[k])[i]
    IN  IF exprType(subtle.expr) = colType THEN exprTypmod(subtle.expr) ELSE -1

\* generate_append_tlist: the typmod of column i after looking at the first k
\* input tlists: the common typmod if all agree on type and typmod, else -1
RECURSIVE AppendTypmod(_, _, _, _)
AppendTypmod(colType, input_tlists, i, k) ==
    LET subtle == NonJunk(input_tlists[k])[i]
        subtypmod == exprTypmod(subtle.expr)
    IN  IF exprType(subtle.expr) = colType
          THEN IF k = 1 THEN subtypmod
               ELSE IF subtypmod # AppendTypmod(colType, input_tlists, i, k - 1) THEN -1
               ELSE AppendTypmod(colType, input_tlists, i, k - 1)
          ELSE -1

\* the flag column of generate_append_tlist: a resjunk Var copied up
AppendFlagColumn(resno) ==
    makeTargetEntry(makeVar(OUTER_VAR, resno, INT4OID, -1, InvalidOid), resno, "flag", TRUE)

\* Generate targetlist for a set-operation Append node
generate_append_tlist(colTypes, colCollations, flag, input_tlists, refnames_tlist) ==
    LET n == Min(Len(colTypes), Min(Len(colCollations), Len(refnames_tlist)))
        cols == [i \in 1..n |->
                   [makeTargetEntry(
                        makeVar(OUTER_VAR, i, colTypes[i],
                                AppendTypmod(colTypes[i], input_tlists, i, Len(input_tlists)),
                                colCollations[i]),
                        i, refnames_tlist[i].resname, FALSE)
                    EXCEPT !.ressortgroupref = i]]
    IN  IF flag THEN Append(cols, AppendFlagColumn(n + 1)) ELSE cols

\* generate_setop_grouplist: a copy of op->groupClauses with the sortgrouprefs
\* of the non-resjunk columns of the target list installed, by position; a
\* clause that no column is left for stays as parse analysis built it
generate_setop_grouplist(op, targetlist) ==
    LET cols == NonJunk(targetlist)
    IN  [k \in 1..Len(op.groupClauses) |->
            IF k <= Len(cols)
              THEN [op.groupClauses[k] EXCEPT !.tleSortGroupRef = cols[k].ressortgroupref]
              ELSE op.groupClauses[k]]

\* tlist.c: does the tlist have the given datatypes, column by column?
tlist_same_datatypes(tlist, colTypes, junkOK) ==
    /\ junkOK \/ \A i \in 1..Len(tlist) : ~tlist[i].resjunk
    /\ Len(NonJunk(tlist)) = Len(colTypes)
    /\ \A i \in 1..Len(colTypes) : exprType(NonJunk(tlist)[i].expr) = colTypes[i]

\* tlist.c: does the tlist have the given collations, column by column?
tlist_same_collations(tlist, colCollations, junkOK) ==
    /\ junkOK \/ \A i \in 1..Len(tlist) : ~tlist[i].resjunk
    /\ Len(NonJunk(tlist)) = Len(colCollations)
    /\ \A i \in 1..Len(colCollations) :
          exprCollation(NonJunk(tlist)[i].expr) = colCollations[i]

-----------------------------------------------------------------------------
(* The set-operation tree (Query.setOperations) *)

SETOP_UNION == "UNION"

SETOP_INTERSECT == "INTERSECT"

SETOP_EXCEPT == "EXCEPT"

RangeTblRef(rtindex) == [kind |-> "RangeTblRef", rtindex |-> rtindex]

\* the declared column types of a set operation over ncols columns; a node
\* whose inputs were resolved to another common type declares NUMERICOID
ColTypes(ncols, alt) == [i \in 1..ncols |-> IF alt THEN NUMERICOID ELSE INT4OID]

ColCollations(ncols) == [i \in 1..ncols |-> DefaultCollation]

\* parse analysis builds one grouping clause per column, with no sortgroupref;
\* both types of the model have a sort operator and a hashable equality
GroupClauses(ncols) == [i \in 1..ncols |-> GroupClause(0, TRUE, TRUE)]

SetOperationStmt(op, all, larg, rarg, ncols, alt) ==
    [kind |-> "SetOperationStmt", op |-> op, all |-> all, larg |-> larg, rarg |-> rarg,
     colTypes |-> ColTypes(ncols, alt), colCollations |-> ColCollations(ncols),
     groupClauses |-> GroupClauses(ncols)]

IsA(node, kind) == node.kind = kind

\* the trees whose leaves are the range-table entries lo..hi, left to right
RECURSIVE TreesOver(_, _, _)
TreesOver(lo, hi, ncols) ==
    IF lo = hi THEN {RangeTblRef(lo)}
    ELSE UNION { { SetOperationStmt(op, all, l, r, ncols, alt) :
                     op \in {SETOP_UNION, SETOP_INTERSECT, SETOP_EXCEPT},
                     all \in BOOLEAN, alt \in BOOLEAN,
                     l \in TreesOver(lo, m, ncols), r \in TreesOver(m + 1, hi, ncols) } :
                 m \in lo..(hi - 1) }

\* the number of set operations of a tree that declare the other column type
RECURSIVE AltCount(_)
AltCount(node) ==
    IF IsA(node, "RangeTblRef") THEN 0
    ELSE (IF node.colTypes # <<>> /\ node.colTypes[1] = NUMERICOID THEN 1 ELSE 0)
         + AltCount(node.larg) + AltCount(node.rarg)

RECURSIVE LeafCount(_)
LeafCount(node) ==
    IF IsA(node, "RangeTblRef") THEN 1 ELSE LeafCount(node.larg) + LeafCount(node.rarg)

\* the set-operation trees of the model: 2..MaxLeaves leaves, 0..MaxCols
\* columns, the top node and all but at most one node below it declaring INT4OID
SetOpTrees ==
    UNION { { t \in TreesOver(1, n, ncols) :
                AltCount(t) <= 1 /\ (ncols > 0 => t.colTypes[1] = INT4OID) } :
            n \in 2..MaxLeaves, ncols \in 0..MaxCols }

\* the collation of the columns of leaf subquery rtindex: the second leaf
\* carries a collation of its own, the others the one the set operations declare
LeafCollation(rtindex) == IF rtindex = 2 THEN "C" ELSE DefaultCollation

\* the target list of leaf subquery rtindex (subroot->processed_tlist): plain
\* columns of type INT4OID
LeafTlist(rtindex, ncols) ==
    [i \in 1..ncols |->
        makeTargetEntry(makeVar(1, i, INT4OID, -1, LeafCollation(rtindex)), i,
                        <<rtindex, i>>, FALSE)]

\* the estimates of the external planner for a leaf subquery: the rows of its
\* cheapest path and the number of distinct groups among them
LeafEstimates == UNION { { [rows |-> r, groups |-> g] : g \in 1..r } : r \in 1..MaxRows }

PlanFractions == {Frac(0, 1), Frac(1, 2), Frac(3, 1)}

-----------------------------------------------------------------------------
(* Paths *)

Path(pathtype, subpaths, rows, width, info) ==
    [pathtype |-> pathtype, subpaths |-> subpaths, rows |-> rows, width |-> width,
     info |-> info]

RECURSIVE SumRows(_)
SumRows(pathlist) ==
    IF pathlist = <<>> THEN 0 ELSE pathlist[1].rows + SumRows(Tail(pathlist))

create_subqueryscan_path(rtindex, est, tuple_fraction) ==
    Path("SubqueryScan", <<>>, est.rows, 0,
         [rtindex |-> rtindex, tuple_fraction |-> tuple_fraction])

create_append_path(pathlist) == Path("Append", pathlist, SumRows(pathlist), 0, <<>>)

make_motion_hash_all_targets(path, tlist) ==
    Path("Motion", <<path>>, path.rows, path.width, [hashExprs |-> tlist])

create_sort_path(path, groupList) ==
    Path("Sort", <<path>>, path.rows, path.width, [pathkeys |-> groupList])

create_agg_path(path, tlist, groupList, dNumGroups) ==
    Path("Agg", <<path>>, dNumGroups, TlistWidth(tlist),
         [aggstrategy |-> "AGG_HASHED", groupClause |-> groupList])

create_upper_unique_path(path, numCols, dNumGroups) ==
    Path("Unique", <<path>>, dNumGroups, path.width, [numkeys |-> numCols])

create_setop_path(path, cmd, strategy, groupList, flagColIdx, firstFlag, dNumGroups, dNumOutputRows) ==
    Path("SetOp", <<path>>, dNumOutputRows, path.width,
         [cmd |-> cmd, strategy |-> strategy, distinctList |-> groupList,
          flagColIdx |-> flagColIdx, firstFlag |-> firstFlag, numGroups |-> dNumGroups])

\* pathnode.c: the path types whose node can evaluate a new target list itself
ProjectionCapable == {"SubqueryScan", "Agg", "Result"}

\* apply_projection_to_path: the path now computes tlist, in the same node if
\* it can project and in a Result node above it if not
apply_projection_to_path(path, tlist) ==
    IF path.pathtype \in ProjectionCapable
      THEN [path EXCEPT !.width = TlistWidth(tlist)]
      ELSE Path("Result", <<path>>, path.rows, TlistWidth(tlist), <<>>)

\* "We have to manually jam the right tlist into the path"
SetPathTarget(path, tlist) == [path EXCEPT !.width = TlistWidth(tlist)]

-----------------------------------------------------------------------------
(* The parts of the state a specification does not use stay idle *)

\* the NULL path pointer
NoPath == <<>>

\* the fields of PlannerInfo that this file reads and writes
PlannerRoot(tuple_fraction, hasRecursion) ==
    [tuple_fraction |-> tuple_fraction, processed_tlist |-> <<>>,
     hasRecursion |-> hasRecursion, non_recursive_path |-> NoPath]

PlanIdle ==
    /\ parse = <<>>
    /\ root = PlannerRoot(FracZero, FALSE)
    /\ entry_fraction = FracZero
    /\ stack = <<>>
    /\ ret = <<>>
    /\ pc = "idle"
    /\ errmsg = NoError
    /\ decisions = <<>>

InhIdle == inh = <<>>

ChooseIdle ==
    /\ ch = <<>>
    /\ chres = NoResult

CallIdle ==
    /\ call = <<>>
    /\ callres = NoResult

-----------------------------------------------------------------------------
(* The planner's call stack.  The head of stack is the running call; a call  *)
(* that calls another one records in phase where it resumes.                 *)

Top == stack[1]

Running(fn, phase) ==
    /\ pc = "run"
    /\ stack # <<>>
    /\ Top.fn = fn
    /\ Top.phase = phase

\* the running call moves to frame f and calls callee
Call(f, callee) == stack' = <<callee, f>> \o Tail(stack)

\* the running call returns value v to its caller
Return(v) ==
    /\ stack' = Tail(stack)
    /\ ret' = v

\* ereport(ERROR)/elog(ERROR): planning is abandoned where it stands
Raise(msg) ==
    /\ pc' = "error"
    /\ errmsg' = msg
    /\ UNCHANGED <<stack, ret, root>>

\* the results of recurse_set_operations, generate_union_path and
\* generate_nonunion_path: the path, *pTargetList and *pNumGroups (0: not asked)
PathResult(path, tlist, numGroups) ==
    [path |-> path, tlist |-> tlist, numGroups |-> numGroups]

\* the result of recurse_union_children: the paths and *tlist_list
ListResult(pathlist, tlist_list) == [pathlist |-> pathlist, tlist_list |-> tlist_list]

RECURSIVE LeftmostLeaf(_)
LeftmostLeaf(node) ==
    IF IsA(node, "RangeTblRef") THEN node ELSE LeftmostLeaf(node.larg)

\* leftmostQuery->targetList: the column names of all generated tlists
RefnamesTlist ==
    LeafTlist(LeftmostLeaf(parse.setOperations).rtindex, Len(parse.setOperations.colTypes))

\* the mutant: resjunk columns may be left in every result
RsoFrame_junk_allowed(setOp, colTypes, colCollations, junkOK, flag, wantGroups) ==
    [fn |-> "recurse_set_operations", phase |-> "enter", setOp |-> setOp,
     colTypes |-> colTypes, colCollations |-> colCollations, junkOK |-> TRUE,
     flag |-> flag, wantGroups |-> wantGroups]

RsoFrame(setOp, colTypes, colCollations, junkOK, flag, wantGroups) ==
    [fn |-> "recurse_set_operations", phase |-> "enter", setOp |-> setOp,
     colTypes |-> colTypes, colCollations |-> colCollations, junkOK |-> junkOK,
     flag |-> flag, wantGroups |-> wantGroups]

RucFrame(setOp, top_union) ==
    [fn |-> "recurse_union_children", phase |-> "enter", setOp |-> setOp,
     top_union |-> top_union, left |-> <<>>]

GenFrame(fn, op, wantGroups) ==
    [fn |-> fn, phase |-> "enter", op |-> op, wantGroups |-> wantGroups,
     save_fraction |-> FracZero, left |-> <<>>]

\* one call of choose_hashed_setop, as recorded in decisions
DecisionRecord(construct, rt, d) ==
    [construct |-> construct, tuple_fraction |-> rt.tuple_fraction, outcome |-> d.outcome]

-----------------------------------------------------------------------------
(* plan_set_operations *)

PlanSetOperations_Enter ==
    /\ Running("plan_set_operations", "enter")
    /\ LET topop == parse.setOperations
       IN  IF root.hasRecursion
             THEN Call([Top EXCEPT !.phase = "return"],
                       GenFrame("generate_recursion_path", topop, FALSE))
             ELSE Call([Top EXCEPT !.phase = "return"],
                       RsoFrame(topop, topop.colTypes, topop.colCollations, TRUE, -1, FALSE))
    /\ UNCHANGED <<parse, root, ret, pc, errmsg, decisions, entry_fraction, ch, chres, inh, call, callres>>

PlanSetOperations_Return ==
    /\ Running("plan_set_operations", "return")
    /\ root' = [root EXCEPT !.processed_tlist = ret.tlist]
    /\ stack' = <<>>
    /\ pc' = "done"
    /\ UNCHANGED <<parse, ret, errmsg, decisions, entry_fraction, ch, chres, inh, call, callres>>

-----------------------------------------------------------------------------
(* recurse_set_operations *)

\* a leaf: plan the subquery, put a SubqueryScan on top and project
RecurseSetOperations_Leaf ==
    /\ Running("recurse_set_operations", "enter")
    /\ IsA(Top.setOp, "RangeTblRef")
    /\ \E est \in LeafEstimates :
         LET rtindex == Top.setOp.rtindex
             subpath == create_subqueryscan_path(rtindex, est, root.tuple_fraction)
             tlist == generate_setop_tlist(Top.colTypes, Top.colCollations, Top.flag,
                          rtindex, TRUE,
                          LeafTlist(rtindex, Len(parse.setOperations.colTypes)),
                          RefnamesTlist)
             path == apply_projection_to_path(subpath, tlist)
         IN  Return(PathResult(path, tlist, IF Top.wantGroups THEN est.groups ELSE 0))
    /\ UNCHANGED <<parse, root, pc, errmsg, decisions, entry_fraction, ch, chres, inh, call, callres>>

\* a set operation: UNIONs are much different from INTERSECT/EXCEPT
RecurseSetOperations_SetOp ==
    /\ Running("recurse_set_operations", "enter")
    /\ IsA(Top.setOp, "SetOperationStmt")
    /\ Call([Top EXCEPT !.phase = "project"],
            GenFrame(IF Top.setOp.op = SETOP_UNION THEN "generate_union_path"
                                                   ELSE "generate_nonunion_path",
                     Top.setOp, Top.wantGroups))
    /\ UNCHANGED <<parse, root, ret, pc, errmsg, decisions, entry_fraction, ch, chres, inh, call, callres>>

\* If necessary, add a Result node to project the caller-requested columns
RecurseSetOperations_Project ==
    /\ Running("recurse_set_operations", "project")
    /\ IF \/ Top.flag >= 0
          \/ ~tlist_same_datatypes(ret.tlist, Top.colTypes, Top.junkOK)
          \/ ~tlist_same_collations(ret.tlist, Top.colCollations, Top.junkOK)
         THEN LET tlist == generate_setop_tlist(Top.colTypes, Top.colCollations,
                               Top.flag, OUTER_VAR, FALSE, ret.tlist, RefnamesTlist)
              IN  Return(PathResult(apply_projection_to_path(ret.path, tlist), tlist,
                                    ret.numGroups))
         ELSE Return(ret)
    /\ UNCHANGED <<parse, root, pc, errmsg, decisions, entry_fraction, ch, chres, inh, call, callres>>

-----------------------------------------------------------------------------
(* generate_union_path, recurse_union_children, make_union_unique *)

\* CDB: the approach chosen by choose_setop_type for the argument paths
OpTypes == {"PSETOP_PARALLEL_PARTITIONED", "PSETOP_SEQUENTIAL_QD"}

\* the settings and cost estimates the planner runs under: hashing enabled,
\* hashing cheaper at any fraction, cheaper only when a fraction of the output
\* is fetched, or never cheaper
PlanEnvs ==
    { env \in ChooseEnvs :
        /\ env.enable_hashagg
        /\ env.work_mem = MaxWorkMem
        /\ \/ env.hashed_p = [startup_cost |-> 1, total_cost |-> 1]
              /\ env.sorted_p = [startup_cost |-> MaxCost, total_cost |-> MaxCost]
           \/ env.hashed_p = [startup_cost |-> 1, total_cost |-> MaxCost]
              /\ env.sorted_p \in {[startup_cost |-> MaxCost, total_cost |-> MaxCost],
                                   [startup_cost |-> 1, total_cost |-> 1]} }

\* the outcome of a step that may raise an error: the path built, the error
\* message if one was raised, and the calls of choose_hashed_setop it made
Built(path, made) == [path |-> path, errmsg |-> NoError, made |-> made]

Failed(msg, made) == [path |-> <<>>, errmsg |-> msg, made |-> made]

\* the mutant: a UNION ALL child of a UNION is not folded
FoldableUnionChild_same_flag_only(op, top_union) ==
    /\ op.op = top_union.op
    /\ op.all = top_union.all
    /\ op.colTypes = top_union.colTypes

\* "Same UNION, so fold children into parent's subpath list"
FoldableUnionChild(op, top_union) ==
    /\ op.op = top_union.op
    /\ (op.all = top_union.all \/ op.all)
    /\ op.colTypes = top_union.colTypes

\* the mutant: an empty grouping list is not rejected
make_union_unique_any_columns(op, path, tlist, rt, env) ==
    LET groupList == generate_setop_grouplist(op, tlist)
        dNumGroups == path.rows
        d == choose_hashed_setop(rt, groupList, path, dNumGroups, dNumGroups, "UNION", env)
        made == <<DecisionRecord("UNION", rt, d)>>
        sorted == SetPathTarget(create_sort_path(path, groupList), tlist)
    IN  IF d.outcome = "error" THEN Failed(d.errmsg, made)
        ELSE IF d.outcome = "hash"
          THEN Built(create_agg_path(path, tlist, groupList, dNumGroups), made)
        ELSE Built(create_upper_unique_path(sorted, Len(groupList), dNumGroups), made)

\* Add nodes to the given path tree to unique-ify the result of a UNION
make_union_unique(op, path, tlist, rt, env) ==
    LET groupList == generate_setop_grouplist(op, tlist)
        dNumGroups == path.rows
        d == choose_hashed_setop(rt, groupList, path, dNumGroups, dNumGroups, "UNION", env)
        made == <<DecisionRecord("UNION", rt, d)>>
        sorted == SetPathTarget(create_sort_path(path, groupList), tlist)
    IN  IF groupList = <<>>
          THEN Failed(<<"over no columns is not supported", "UNION">>, <<>>)
        ELSE IF d.outcome = "error" THEN Failed(d.errmsg, made)
        ELSE IF d.outcome = "hash"
          THEN Built(create_agg_path(path, tlist, groupList, dNumGroups), made)
        ELSE Built(create_upper_unique_path(sorted, Len(groupList), dNumGroups), made)

\* the mutant: the fraction is saved after it was forced to 0
GenerateUnionPath_Enter_saves_late ==
    /\ Running("generate_union_path", "enter")
    /\ root' = IF ~Top.op.all THEN [root EXCEPT !.tuple_fraction = FracZero] ELSE root
    /\ Call([Top EXCEPT !.phase = "larg", !.save_fraction = root'.tuple_fraction],
            RucFrame(Top.op.larg, Top.op))
    /\ UNCHANGED <<parse, ret, pc, errmsg, decisions, entry_fraction, ch, chres, inh, call, callres>>

\* If plain UNION, tell children to fetch all tuples
GenerateUnionPath_Enter ==
    /\ Running("generate_union_path", "enter")
    /\ root' = IF ~Top.op.all THEN [root EXCEPT !.tuple_fraction = FracZero] ELSE root
    /\ Call([Top EXCEPT !.phase = "larg", !.save_fraction = root.tuple_fraction],
            RucFrame(Top.op.larg, Top.op))
    /\ UNCHANGED <<parse, ret, pc, errmsg, decisions, entry_fraction, ch, chres, inh, call, callres>>

GenerateUnionPath_Rarg ==
    /\ Running("generate_union_path", "larg")
    /\ Call([Top EXCEPT !.phase = "rarg", !.left = ret], RucFrame(Top.op.rarg, Top.op))
    /\ UNCHANGED <<parse, root, ret, pc, errmsg, decisions, entry_fraction, ch, chres, inh, call, callres>>

\* Append the child results together; for UNION, remove duplicates
GenerateUnionPath_Finish ==
    /\ Running("generate_union_path", "rarg")
    /\ \E optype \in OpTypes, env \in PlanEnvs :
         LET op == Top.op
             pathlist == Top.left.pathlist \o ret.pathlist
             tlist_list == Top.left.tlist_list \o ret.tlist_list
             tlist == generate_append_tlist(op.colTypes, op.colCollations, FALSE,
                                            tlist_list, RefnamesTlist)
             appended == SetPathTarget(create_append_path(pathlist), tlist)
             moved == IF optype = "PSETOP_PARALLEL_PARTITIONED"
                        THEN make_motion_hash_all_targets(appended, tlist)
                        ELSE appended
             res == IF ~op.all THEN make_union_unique(op, moved, tlist, root, env)
                               ELSE Built(appended, <<>>)
         IN  /\ decisions' = decisions \o res.made
             /\ IF res.errmsg # NoError
                  THEN Raise(res.errmsg)
                  ELSE /\ Return(PathResult(res.path, tlist,
                                     IF Top.wantGroups THEN res.path.rows ELSE 0))
                       \* Undo effects of possibly forcing tuple_fraction to 0
                       /\ root' = [root EXCEPT !.tuple_fraction = Top.save_fraction]
                       /\ UNCHANGED <<pc, errmsg>>
    /\ UNCHANGED <<parse, entry_fraction, ch, chres, inh, call, callres>>

\* Pull up children of a UNION node that are identically-propertied UNIONs
RecurseUnionChildren_Fold ==
    /\ Running("recurse_union_children", "enter")
    /\ IsA(Top.setOp, "SetOperationStmt")
    /\ FoldableUnionChild(Top.setOp, Top.top_union)
    /\ Call([Top EXCEPT !.phase = "larg"], RucFrame(Top.setOp.larg, Top.top_union))
    /\ UNCHANGED <<parse, root, ret, pc, errmsg, decisions, entry_fraction, ch, chres, inh, call, callres>>

RecurseUnionChildren_Rarg ==
    /\ Running("recurse_union_children", "larg")
    /\ Call([Top EXCEPT !.phase = "rarg", !.left = ret],
            RucFrame(Top.setOp.rarg, Top.top_union))
    /\ UNCHANGED <<parse, root, ret, pc, errmsg, decisions, entry_fraction, ch, chres, inh, call, callres>>

RecurseUnionChildren_Concat ==
    /\ Running("recurse_union_children", "rarg")
    /\ Return(ListResult(Top.left.pathlist \o ret.pathlist,
                         Top.left.tlist_list \o ret.tlist_list))
    /\ UNCHANGED <<parse, root, pc, errmsg, decisions, entry_fraction, ch, chres, inh, call, callres>>

\* Not same, so plan this child separately
RecurseUnionChildren_Separate ==
    /\ Running("recurse_union_children", "enter")
    /\ ~(IsA(Top.setOp, "SetOperationStmt") /\ FoldableUnionChild(Top.setOp, Top.top_union))
    /\ Call([Top EXCEPT !.phase = "single"],
            RsoFrame(Top.setOp, Top.top_union.colTypes, Top.top_union.colCollations,
                     FALSE, -1, FALSE))
    /\ UNCHANGED <<parse, root, ret, pc, errmsg, decisions, entry_fraction, ch, chres, inh, call, callres>>

RecurseUnionChildren_Single ==
    /\ Running("recurse_union_children", "single")
    /\ Return(ListResult(<<ret.path>>, <<ret.tlist>>))
    /\ UNCHANGED <<parse, root, pc, errmsg, decisions, entry_fraction, ch, chres, inh, call, callres>>

-----------------------------------------------------------------------------
(* generate_nonunion_path *)

ConstructName(op) == IF op.op = SETOP_INTERSECT THEN "INTERSECT" ELSE "EXCEPT"

SetOpCmd(op) ==
    IF op.op = SETOP_INTERSECT
      THEN (IF op.all THEN "SETOPCMD_INTERSECT_ALL" ELSE "SETOPCMD_INTERSECT")
      ELSE (IF op.all THEN "SETOPCMD_EXCEPT_ALL" ELSE "SETOPCMD_EXCEPT")

\* the mutant: the smaller input is put first for EXCEPT too
LeftInputFirst_smaller_first(op, dLeftGroups, dRightGroups) ==
    dLeftGroups <= dRightGroups

\* "For EXCEPT, we must put the left input first.  For INTERSECT ... we prefer
\* to put the smaller input first"
LeftInputFirst(op, dLeftGroups, dRightGroups) ==
    op.op = SETOP_EXCEPT \/ dLeftGroups <= dRightGroups

\* the mutant: firstFlag is the flag of the left input in either order
OrderedInputs_left_flag(op, l, r) ==
    IF LeftInputFirst(op, l.numGroups, r.numGroups)
      THEN [pathlist |-> <<l.path, r.path>>, tlist_list |-> <<l.tlist, r.tlist>>,
            firstFlag |-> 0]
      ELSE [pathlist |-> <<r.path, l.path>>, tlist_list |-> <<r.tlist, l.tlist>>,
            firstFlag |-> 0]

\* the inputs of the Append, in order: the paths, their tlists and firstFlag
OrderedInputs(op, l, r) ==
    IF LeftInputFirst(op, l.numGroups, r.numGroups)
      THEN [pathlist |-> <<l.path, r.path>>, tlist_list |-> <<l.tlist, r.tlist>>,
            firstFlag |-> 0]
      ELSE [pathlist |-> <<r.path, l.path>>, tlist_list |-> <<r.tlist, l.tlist>>,
            firstFlag |-> 1]

\* CDB: Collocate non-distinct tuples prior to sort or hash
MotionEach(pathlist, tlist_list) ==
    [i \in 1..Len(pathlist) |-> make_motion_hash_all_targets(pathlist[i], tlist_list[i])]

\* the part of generate_nonunion_path that follows the planning of the children
NonunionPath(op, l, r, rt, optype, env) ==
    LET inputs == OrderedInputs(op, l, r)
        pathlist == IF optype = "PSETOP_PARALLEL_PARTITIONED"
                      THEN MotionEach(inputs.pathlist, inputs.tlist_list)
                      ELSE inputs.pathlist
        tlist == generate_append_tlist(op.colTypes, op.colCollations, TRUE,
                                       inputs.tlist_list, RefnamesTlist)
        appended == SetPathTarget(create_append_path(pathlist), tlist)
        groupList == generate_setop_grouplist(op, tlist)
        dNumGroups == IF op.op = SETOP_EXCEPT THEN l.numGroups
                      ELSE Min(l.numGroups, r.numGroups)
        dNumOutputRows ==
            IF op.op = SETOP_EXCEPT
              THEN (IF op.all THEN l.path.rows ELSE dNumGroups)
              ELSE (IF op.all THEN Min(l.path.rows, r.path.rows) ELSE dNumGroups)
        d == choose_hashed_setop(rt, groupList, appended, dNumGroups, dNumOutputRows,
                                 ConstructName(op), env)
        made == <<DecisionRecord(ConstructName(op), rt, d)>>
        use_hash == d.outcome = "hash"
        input == IF use_hash THEN appended ELSE create_sort_path(appended, groupList)
        path == create_setop_path(input, SetOpCmd(op),
                    IF use_hash THEN "SETOP_HASHED" ELSE "SETOP_SORTED", groupList,
                    Len(op.colTypes) + 1, IF use_hash THEN inputs.firstFlag ELSE -1,
                    dNumGroups, dNumOutputRows)
    IN  IF groupList = <<>>
          THEN [Failed(<<"over no columns is not supported", ConstructName(op)>>, <<>>)
                EXCEPT !.path = appended]
        ELSE IF d.outcome = "error" THEN Failed(d.errmsg, made)
        ELSE [path |-> path, errmsg |-> NoError, made |-> made, tlist |-> tlist,
              numGroups |-> dNumGroups]

\* Tell children to fetch all tuples; recurse on the left child, flag 0
GenerateNonunionPath_Enter ==
    /\ Running("generate_nonunion_path", "enter")
    /\ root' = [root EXCEPT !.tuple_fraction = FracZero]
    /\ Call([Top EXCEPT !.phase = "larg", !.save_fraction = root.tuple_fraction],
            RsoFrame(Top.op.larg, Top.op.colTypes, Top.op.colCollations, FALSE, 0, TRUE))
    /\ UNCHANGED <<parse, ret, pc, errmsg, decisions, entry_fraction, ch, chres, inh, call, callres>>

\* recurse on the right child, flag 1
GenerateNonunionPath_Rarg ==
    /\ Running("generate_nonunion_path", "larg")
    /\ Call([Top EXCEPT !.phase = "rarg", !.left = ret],
            RsoFrame(Top.op.rarg, Top.op.colTypes, Top.op.colCollations, FALSE, 1, TRUE))
    /\ UNCHANGED <<parse, root, ret, pc, errmsg, decisions, entry_fraction, ch, chres, inh, call, callres>>

\* Undo effects of forcing tuple_fraction to 0, then build Append and SetOp
GenerateNonunionPath_Finish ==
    /\ Running("generate_nonunion_path", "rarg")
    /\ \E optype \in OpTypes, env \in PlanEnvs :
         LET restored == [root EXCEPT !.tuple_fraction = Top.save_fraction]
             res == NonunionPath(Top.op, Top.left, ret, restored, optype, env)
         IN  /\ decisions' = decisions \o res.made
             /\ IF res.errmsg # NoError
                  THEN /\ pc' = "error"
                       /\ errmsg' = res.errmsg
                       /\ root' = restored
                       /\ UNCHANGED <<stack, ret>>
                  ELSE /\ Return(PathResult(res.path, res.tlist,
                                     IF Top.wantGroups THEN res.numGroups ELSE 0))
                       /\ root' = restored
                       /\ UNCHANGED <<pc, errmsg>>
    /\ UNCHANGED <<parse, entry_fraction, ch, chres, inh, call, callres>>

-----------------------------------------------------------------------------
(* Spec: plan_set_operations on a bounded set of trees *)

Queries == [setOperations : { t \in SetOpTrees : IsA(t, "SetOperationStmt") }]

Init ==
    /\ parse \in Queries
    /\ entry_fraction \in PlanFractions
    /\ root = PlannerRoot(entry_fraction, FALSE)
    /\ stack = << [fn |-> "plan_set_operations", phase |-> "enter"] >>
    /\ ret = <<>>
    /\ pc = "run"
    /\ errmsg = NoError
    /\ decisions = <<>>
    /\ ChooseIdle
    /\ InhIdle
    /\ CallIdle

Next ==
    \/ PlanSetOperations_Enter
    \/ PlanSetOperations_Return
    \/ RecurseSetOperations_Leaf
    \/ RecurseSetOperations_SetOp
    \/ RecurseSetOperations_Project
    \/ GenerateUnionPath_Enter
    \/ GenerateUnionPath_Rarg
    \/ GenerateUnionPath_Finish
    \/ RecurseUnionChildren_Fold
    \/ RecurseUnionChildren_Rarg
    \/ RecurseUnionChildren_Concat
    \/ RecurseUnionChildren_Separate
    \/ RecurseUnionChildren_Single
    \/ GenerateNonunionPath_Enter
    \/ GenerateNonunionPath_Rarg
    \/ GenerateNonunionPath_Finish

Spec == Init /\ [][Next]_vars

-----------------------------------------------------------------------------
(* generate_recursion_path *)

\* CDB: a Motion that gathers the path on one segment
cdbpath_create_motion_path(path) ==
    Path("Motion", <<path>>, path.rows, path.width, [locus |-> "SingleQE"])

create_recursiveunion_path(lpath, rpath, tlist, groupList, dNumGroups) ==
    Path("RecursiveUnion", <<lpath, rpath>>, lpath.rows + 10 * rpath.rows,
         TlistWidth(tlist), [distinctList |-> groupList, numGroups |-> dNumGroups])

\* "The right path will want to look at the left one ..."
ExposeNonRecursivePath(rt, lpath) == [rt EXCEPT !.non_recursive_path = lpath]

\* the mutant: the path of the left input stays exposed
HideNonRecursivePath_never(rt) == rt

HideNonRecursivePath(rt) == [rt EXCEPT !.non_recursive_path = NoPath]

\* Parser should have rejected other cases; plan the left input
GenerateRecursionPath_Enter ==
    /\ Running("generate_recursion_path", "enter")
    /\ IF Top.op.op # SETOP_UNION
         THEN Raise(<<"only UNION queries can be recursive">>)
         ELSE /\ Call([Top EXCEPT !.phase = "larg"],
                      RsoFrame(Top.op.larg, Top.op.colTypes, Top.op.colCollations,
                               FALSE, -1, FALSE))
              /\ UNCHANGED <<root, ret, pc, errmsg>>
    /\ UNCHANGED <<parse, decisions, entry_fraction, ch, chres, inh, call, callres>>

\* If the non-recursive side is SegmentGeneral, gather it; expose it and plan
\* the right input
GenerateRecursionPath_Rarg ==
    /\ Running("generate_recursion_path", "larg")
    /\ \E segmentGeneral \in BOOLEAN :
         LET lpath == IF segmentGeneral THEN cdbpath_create_motion_path(ret.path)
                                        ELSE ret.path
             left == [ret EXCEPT !.path = lpath]
         IN  /\ root' = ExposeNonRecursivePath(root, lpath)
             /\ Call([Top EXCEPT !.phase = "rarg", !.left = left],
                     RsoFrame(Top.op.rarg, Top.op.colTypes, Top.op.colCollations,
                              FALSE, -1, FALSE))
    /\ UNCHANGED <<parse, ret, pc, errmsg, decisions, entry_fraction, ch, chres, inh, call, callres>>

\* hide the left path again, build the tlist as in Append cases, identify the
\* grouping operators and make the RecursiveUnion
GenerateRecursionPath_Finish ==
    /\ Running("generate_recursion_path", "rarg")
    /\ LET op == Top.op
           lpath == Top.left.path
           rpath == ret.path
           tlist == generate_append_tlist(op.colTypes, op.colCollations, FALSE,
                                          <<Top.left.tlist, ret.tlist>>, RefnamesTlist)
           groupList == IF op.all THEN <<>> ELSE generate_setop_grouplist(op, tlist)
           dNumGroups == IF op.all THEN 0 ELSE lpath.rows + rpath.rows * 10
       IN  /\ root' = HideNonRecursivePath(root)
           /\ IF ~op.all /\ ~grouping_is_hashable(groupList)
                THEN /\ pc' = "error"
                     /\ errmsg' = <<"could not implement recursive UNION">>
                     /\ UNCHANGED <<stack, ret>>
                ELSE /\ Return(PathResult(create_recursiveunion_path(lpath, rpath, tlist,
                                              groupList, dNumGroups), tlist, 0))
                     /\ UNCHANGED <<pc, errmsg>>
    /\ UNCHANGED <<parse, decisions, entry_fraction, ch, chres, inh, call, callres>>

-----------------------------------------------------------------------------
(* SpecRec: plan_set_operations on the same trees, the topmost UNION being   *)
(* recursive (root->hasRecursion) or not                                     *)

InitRec ==
    /\ parse \in Queries
    /\ entry_fraction = FracZero
    /\ \E hasRecursion \in BOOLEAN :
          /\ hasRecursion => parse.setOperations.op = SETOP_UNION
          /\ root = PlannerRoot(entry_fraction, hasRecursion)
    /\ stack = << [fn |-> "plan_set_operations", phase |-> "enter"] >>
    /\ ret = <<>>
    /\ pc = "run"
    /\ errmsg = NoError
    /\ decisions = <<>>
    /\ ChooseIdle
    /\ InhIdle
    /\ CallIdle

NextRec ==
    \/ Next
    \/ GenerateRecursionPath_Enter
    \/ GenerateRecursionPath_Rarg
    \/ GenerateRecursionPath_Finish

SpecRec == InitRec /\ [][NextRec]_vars

-----------------------------------------------------------------------------
(* SpecChoose: one call of choose_hashed_setop on arbitrary inputs *)

InitChoose ==
    /\ ch \in ChooseInputs
    /\ chres = NoResult
    /\ PlanIdle
    /\ InhIdle
    /\ CallIdle

ChooseCall ==
    /\ chres = NoResult
    /\ chres' = choose_hashed_setop(ch.root, ch.groupClauses, ch.input_path,
                                    ch.dNumGroups, ch.dNumOutputRows,
                                    ch.construct, ch.env)
    /\ UNCHANGED <<ch, planvars, inh, callvars>>

NextChoose == ChooseCall

SpecChoose == InitChoose /\ [][NextChoose]_vars

-----------------------------------------------------------------------------
(* Inheritance expansion: the catalog, and the pure functions                *)

\* relation OIDs of the catalog are 1..MaxRels
MaxRels == 3

RelOids == 1..MaxRels

\* offset of the attribute numbers in a column-privilege bitmapset
FirstLowInvalidHeapAttributeNumber == -9

InvalidAttrNumber == 0

RELKIND_RELATION == "r"

RELKIND_FOREIGN_TABLE == "f"

\* no relation (rte->relid of a subquery RTE)
NoRelid == 0

\* ACL_SELECT, the required permissions of a relation that is read
ACL_SELECT == 2

\* the NULL list entry of a dropped column
NullVar == <<>>

\* one pg_attribute row of a tuple descriptor
Att(attname, atttypid, atttypmod, attcollation, attisdropped) ==
    [attname |-> attname, atttypid |-> atttypid, atttypmod |-> atttypmod,
     attcollation |-> attcollation, attisdropped |-> attisdropped]

\* the positions of the non-dropped columns of new_tupdesc named attname
NamedAtts(new_tupdesc, attname) ==
    { n \in 1..Len(new_tupdesc) :
        ~new_tupdesc[n].attisdropped /\ new_tupdesc[n].attname = attname }

\* the mutant: the column at the same position is taken without a look at
\* its name
MatchingAtt_by_position(old_tupdesc, new_tupdesc, old_attno) ==
    LET named == NamedAtts(new_tupdesc, old_tupdesc[old_attno].attname)
    IN  IF old_attno <= Len(new_tupdesc) /\ ~new_tupdesc[old_attno].attisdropped
          THEN old_attno
        ELSE IF named = {} THEN 0
        ELSE CHOOSE n \in named : \A m \in named : n <= m

\* new_attno + 1 of the column that matches parent column old_attno (1-based),
\* or 0 if the search runs off the end: the same position is tried first,
\* then the first match of a scan from the start
MatchingAtt(old_tupdesc, new_tupdesc, old_attno) ==
    LET attname == old_tupdesc[old_attno].attname
        named == NamedAtts(new_tupdesc, attname)
    IN  IF old_attno <= Len(new_tupdesc) /\ old_attno \in named THEN old_attno
        ELSE IF named = {} THEN 0
        ELSE CHOOSE n \in named : \A m \in named : n <= m

\* the error of make_inh_translation_list for one parent column, or NoError
TranslationError(old_tupdesc, new_tupdesc, same_rel, old_attno) ==
    LET att == old_tupdesc[old_attno]
        n == MatchingAtt(old_tupdesc, new_tupdesc, old_attno)
    IN  IF att.attisdropped \/ same_rel THEN NoError
        ELSE IF n = 0 THEN <<"could not find inherited attribute", att.attname>>
        ELSE IF att.atttypid # new_tupdesc[n].atttypid
                  \/ att.atttypmod # new_tupdesc[n].atttypmod
          THEN <<"does not match parent's type", att.attname>>
        ELSE IF att.attcollation # new_tupdesc[n].attcollation
          THEN <<"does not match parent's collation", att.attname>>
        ELSE NoError

\* the list entry of make_inh_translation_list for one parent column
TranslatedVar(old_tupdesc, new_tupdesc, same_rel, newvarno, old_attno) ==
    LET att == old_tupdesc[old_attno]
        new_attno == IF same_rel THEN old_attno
                     ELSE MatchingAtt(old_tupdesc, new_tupdesc, old_attno)
    IN  IF att.attisdropped THEN NullVar
        ELSE makeVar(newvarno, new_attno, att.atttypid, att.atttypmod, att.attcollation)

\* Build the list of translations from parent Vars to child Vars; the columns
\* are processed in order, so the error raised is that of the first column
\* that has one
make_inh_translation_list(old_tupdesc, new_tupdesc, same_rel, newvarno) ==
    LET failing == { i \in 1..Len(old_tupdesc) :
                       TranslationError(old_tupdesc, new_tupdesc, same_rel, i) # NoError }
        first == CHOOSE i \in failing : \A j \in failing : i <= j
    IN  IF failing # {}
          THEN [errmsg |-> TranslationError(old_tupdesc, new_tupdesc, same_rel, first),
                translated_vars |-> <<>>]
        ELSE [errmsg |-> NoError,
              translated_vars |->
                  [i \in 1..Len(old_tupdesc) |->
                      TranslatedVar(old_tupdesc, new_tupdesc, same_rel, newvarno, i)]]

\* the member of a column-privilege bitmapset that stands for attribute attno
PrivBit(attno) == attno - FirstLowInvalidHeapAttributeNumber

\* the mutant: the bits keep the parent's column numbers
translate_col_privs_parent_numbering(parent_privs, translated_vars) ==
    LET system == { b \in parent_privs : b < PrivBit(InvalidAttrNumber) }
        whole_row == PrivBit(InvalidAttrNumber) \in parent_privs
        user == { PrivBit(a) :
                    a \in { a \in 1..Len(translated_vars) :
                              /\ translated_vars[a] # NullVar
                              /\ whole_row \/ PrivBit(a) \in parent_privs } }
    IN  system \cup user

\* Translate a bitmapset of per-column privileges to the child's numbering
translate_col_privs(parent_privs, translated_vars) ==
    LET system == { PrivBit(attno) :
                      attno \in { a \in (FirstLowInvalidHeapAttributeNumber + 1)..(-1) :
                                    PrivBit(a) \in parent_privs } }
        whole_row == PrivBit(InvalidAttrNumber) \in parent_privs
        user == { PrivBit(translated_vars[attno].varattno) :
                    attno \in { a \in 1..Len(translated_vars) :
                                  /\ translated_vars[a] # NullVar
                                  /\ whole_row \/ PrivBit(a) \in parent_privs } }
    IN  system \cup user

\* select_rowmark_type for a relation RTE
select_rowmark_type(rte, strength) ==
    IF rte.rtekind # "RTE_RELATION" THEN "ROW_MARK_COPY"
    ELSE IF rte.relkind = RELKIND_FOREIGN_TABLE THEN "ROW_MARK_COPY"
    ELSE IF strength = "LCS_FORSHARE" THEN "ROW_MARK_SHARE"
    ELSE "ROW_MARK_EXCLUSIVE"

\* get_plan_rowmark: the position in rowMarks of the row mark of rtindex, or 0
get_plan_rowmark(rowMarks, rtindex) ==
    LET found == { i \in 1..Len(rowMarks) : rowMarks[i].rti = rtindex }
    IN  IF found = {} THEN 0 ELSE CHOOSE i \in found : \A j \in found : i <= j

PlanRowMark(rti, prti, rowmarkId, markType, strength, waitPolicy, isParent, canOpt) ==
    [rti |-> rti, prti |-> prti, rowmarkId |-> rowmarkId, markType |-> markType,
     allMarkTypes |-> {markType}, strength |-> strength, waitPolicy |-> waitPolicy,
     isParent |-> isParent, canOptSelectLockingClause |-> canOpt]

RangeTblEntry(rtekind, relid, relkind, inhflag, requiredPerms, selectedCols) ==
    [rtekind |-> rtekind, relid |-> relid, relkind |-> relkind, inh |-> inhflag,
     requiredPerms |-> requiredPerms, selectedCols |-> selectedCols,
     insertedCols |-> {}, updatedCols |-> {}]

AppendRelInfo(parent_relid, child_relid, parent_reloid, translated_vars) ==
    [parent_relid |-> parent_relid, child_relid |-> child_relid,
     parent_reloid |-> parent_reloid, translated_vars |-> translated_vars]

DynamicScanInfo(parentOid, rtindex, children, dynamicScanId) ==
    [parentOid |-> parentOid, rtindex |-> rtindex, hasSelector |-> FALSE,
     children |-> children, dynamicScanId |-> dynamicScanId]

\* the mutant: the row mark is looked at before the result relation
InheritanceLockMode_rowmark_first(rti, resultRelation, rowMarks) ==
    LET oldrc == get_plan_rowmark(rowMarks, rti)
    IN  IF oldrc # 0
          THEN (IF rowMarks[oldrc].canOptSelectLockingClause
                  THEN "RowShareLock" ELSE "ExclusiveLock")
        ELSE IF rti = resultRelation THEN "RowExclusiveLock"
        ELSE "AccessShareLock"

\* the lock that expand_inherited_rtentry takes on the children of rti
InheritanceLockMode(rti, resultRelation, rowMarks) ==
    LET oldrc == get_plan_rowmark(rowMarks, rti)
    IN  IF rti = resultRelation THEN "RowExclusiveLock"
        ELSE IF oldrc # 0
          THEN (IF rowMarks[oldrc].canOptSelectLockingClause
                  THEN "RowShareLock" ELSE "ExclusiveLock")
        ELSE "AccessShareLock"

\* "children that are temp tables of other backends" are ignored
SkipOtherTemp(catalog, childOID, parentOID) ==
    childOID # parentOID /\ childOID \in catalog.other_temp

\* the mutant: the parent itself is never skipped
SkipNonLeaf_children_only(catalog, childOID, parentOID, parent_is_partitioned) ==
    parent_is_partitioned /\ childOID # parentOID /\ childOID \notin catalog.leaves

\* "show root and leaf partitions": of a partitioned parent, only the leaves
SkipNonLeaf(catalog, childOID, parentOID, parent_is_partitioned) ==
    parent_is_partitioned /\ childOID \notin catalog.leaves

\* the mutant: the parent's row mark is flagged before the inheritors are counted
RowMarksAfterLookup_flag_first(rowMarks, oldrc, inhOIDs) ==
    IF oldrc # 0 THEN [rowMarks EXCEPT ![oldrc].isParent = TRUE] ELSE rowMarks

\* the row marks after find_all_inheritors: with at least two inheritors, the
\* parent's row mark (if any) is flagged isParent
RowMarksAfterLookup(rowMarks, oldrc, inhOIDs) ==
    IF Len(inhOIDs) >= 2 /\ oldrc # 0
      THEN [rowMarks EXCEPT ![oldrc].isParent = TRUE]
      ELSE rowMarks

\* "If all the children were temp tables, pretend it's a non-inheritance
\* situation"
TooFewAppinfos(appinfos) == Len(appinfos) < 1

-----------------------------------------------------------------------------
(* expand_inherited_tables and expand_inherited_rtentry.  inh holds the      *)
(* catalog, the planner state that the expansion changes, the locks and the  *)
(* relation handles, and the position and the locals of the running call.    *)

NoLocals ==
    [lockmode |-> "NoLock", inhOIDs |-> <<>>, l |-> 0, appinfos |-> <<>>,
     child_relids |-> {}, parent_is_partitioned |-> FALSE, oldrc |-> 0]

\* the planner state at the call of expand_inherited_rtentry
PlannerState(s) ==
    [rtable |-> s.rtable, rowMarks |-> s.rowMarks,
     append_rel_list |-> s.append_rel_list, dynamicScans |-> s.dynamicScans]

\* LockRelationOid on every inheritor but the parent, which the rewriter locked
AcquireLocks(s, oids, parentOID, lockmode) ==
    LET got == { <<oids[i], lockmode>> : i \in { j \in 1..Len(oids) : oids[j] # parentOID } }
    IN  [s EXCEPT !.locks_acquired = @ \cup got, !.locks_held = @ \cup got]

heap_open(s, relid) == [s EXCEPT !.opens[relid] = @ + 1]

\* heap_close: the handle is closed, and the lock released unless NoLock
heap_close(s, relid, lockmode) ==
    [s EXCEPT !.closes[relid] = @ + 1,
              !.locks_held = IF lockmode = "NoLock" THEN @ ELSE @ \ {<<relid, lockmode>>}]

\* the heap_open of the loop body: "Open rel if needed"
OpenChild(s, childOID, parentOID) ==
    IF childOID # parentOID THEN heap_open(s, childOID) ELSE s

\* the mutant: the parent's handle is closed in the loop body too
CloseChild_parent_too(s, childOID, parentOID, lockmode) ==
    heap_close(s, childOID, lockmode)

\* a heap_close of the loop body, which never closes the parent
CloseChild(s, childOID, parentOID, lockmode) ==
    IF childOID # parentOID THEN heap_close(s, childOID, lockmode) ELSE s

\* expand_inherited_rtentry returns to the loop of expand_inherited_tables
ReturnToLoop(s, exit) ==
    [s EXCEPT !.pc = "loop", !.rti = @ + 1, !.exit = exit, !.local = NoLocals]

ClearInh(s) == [s EXCEPT !.rtable[s.rti].inh = FALSE]

InhUnchanged == UNCHANGED <<planvars, choosevars, callvars>>

ExpandInheritedTables_Enter ==
    /\ inh # <<>> /\ inh.pc = "start"
    /\ inh' = [inh EXCEPT !.pc = "loop", !.nrtes = Len(inh.rtable), !.rti = 1]
    /\ InhUnchanged

ExpandInheritedTables_Call ==
    /\ inh # <<>> /\ inh.pc = "loop"
    /\ inh.rti <= inh.nrtes
    /\ inh' = [inh EXCEPT !.pc = "enter", !.entry = PlannerState(inh)]
    /\ InhUnchanged

ExpandInheritedTables_Return ==
    /\ inh # <<>> /\ inh.pc = "loop"
    /\ inh.rti > inh.nrtes
    /\ inh' = [inh EXCEPT !.pc = "done"]
    /\ InhUnchanged

Entered == inh # <<>> /\ inh.pc = "enter"

CurrentRte == inh.rtable[inh.rti]

\* "Does RT entry allow inheritance?"
ExpandInheritedRtentry_NotInherited ==
    /\ Entered
    /\ ~CurrentRte.inh
    /\ inh' = ReturnToLoop(inh, "not_inherited")
    /\ InhUnchanged

\* "Ignore any already-expanded UNION ALL nodes"
ExpandInheritedRtentry_NotRelation ==
    /\ Entered
    /\ CurrentRte.inh
    /\ CurrentRte.rtekind # "RTE_RELATION"
    /\ inh' = ReturnToLoop(inh, "not_relation")
    /\ InhUnchanged

\* "Fast path for common case of childless table"
ExpandInheritedRtentry_Childless ==
    /\ Entered
    /\ CurrentRte.inh
    /\ CurrentRte.rtekind = "RTE_RELATION"
    /\ CurrentRte.relid \notin inh.catalog.has_subclass
    /\ inh' = ReturnToLoop(ClearInh(inh), "childless")
    /\ InhUnchanged

HasSubclass ==
    /\ Entered
    /\ CurrentRte.inh
    /\ CurrentRte.rtekind = "RTE_RELATION"
    /\ CurrentRte.relid \in inh.catalog.has_subclass

\* the state after find_all_inheritors and the flagging of the parent's mark
AfterLookup(s) ==
    LET parentOID == s.rtable[s.rti].relid
        oldrc == get_plan_rowmark(s.rowMarks, s.rti)
        lockmode == InheritanceLockMode(s.rti, s.resultRelation, s.rowMarks)
        inhOIDs == s.catalog.inheritors[parentOID]
        locked == AcquireLocks(s, inhOIDs, parentOID, lockmode)
    IN  [locked EXCEPT
           !.rowMarks = RowMarksAfterLookup(s.rowMarks, oldrc, inhOIDs),
           !.local = [lockmode |-> lockmode, inhOIDs |-> inhOIDs, l |-> 1,
                      appinfos |-> <<>>, child_relids |-> {},
                      parent_is_partitioned |-> parentOID \in s.catalog.partitioned,
                      oldrc |-> oldrc]]

\* "Check that there's at least one descendant, else treat as no-child case"
ExpandInheritedRtentry_FewInheritors ==
    /\ HasSubclass
    /\ Len(inh.catalog.inheritors[CurrentRte.relid]) < 2
    /\ inh' = ReturnToLoop(ClearInh(AfterLookup(inh)), "few_inheritors")
    /\ InhUnchanged

\* the parent is opened and the scan of the inheritance set starts
ExpandInheritedRtentry_OpenParent ==
    /\ HasSubclass
    /\ Len(inh.catalog.inheritors[CurrentRte.relid]) >= 2
    /\ inh' = [heap_open(AfterLookup(inh), CurrentRte.relid) EXCEPT !.pc = "scan"]
    /\ InhUnchanged

Scanning ==
    /\ inh # <<>> /\ inh.pc = "scan"
    /\ inh.local.l <= Len(inh.local.inhOIDs)

ChildOID == inh.local.inhOIDs[inh.local.l]

ParentOID == CurrentRte.relid

NextChild(s) == [s EXCEPT !.local.l = @ + 1]

\* a temp table of another backend is closed, with its lock, and ignored
ExpandInheritedRtentry_SkipOtherTemp ==
    /\ Scanning
    /\ SkipOtherTemp(inh.catalog, ChildOID, ParentOID)
    /\ inh' = NextChild(CloseChild(OpenChild(inh, ChildOID, ParentOID),
                                   ChildOID, ParentOID, inh.local.lockmode))
    /\ InhUnchanged

\* of a partitioned parent, a relation that is not a leaf is ignored
ExpandInheritedRtentry_SkipNonLeaf ==
    /\ Scanning
    /\ ~SkipOtherTemp(inh.catalog, ChildOID, ParentOID)
    /\ SkipNonLeaf(inh.catalog, ChildOID, ParentOID, inh.local.parent_is_partitioned)
    /\ inh' = NextChild(CloseChild(OpenChild(inh, ChildOID, ParentOID),
                                   ChildOID, ParentOID, inh.local.lockmode))
    /\ InhUnchanged

Kept ==
    /\ Scanning
    /\ ~SkipOtherTemp(inh.catalog, ChildOID, ParentOID)
    /\ ~SkipNonLeaf(inh.catalog, ChildOID, ParentOID, inh.local.parent_is_partitioned)

\* the mutant: requiredPerms is copied from the parent's RTE
ChildRte_keeps_perms(rte, catalog, childOID) ==
    [rte EXCEPT !.relid = childOID, !.relkind = catalog.relkind[childOID], !.inh = FALSE]

\* the RTE built for the child, before its column privileges are translated
ChildRte(rte, catalog, childOID) ==
    [rte EXCEPT !.relid = childOID, !.relkind = catalog.relkind[childOID],
                !.inh = FALSE, !.requiredPerms = 0]

ChildTranslation ==
    make_inh_translation_list(inh.catalog.tupdesc[ParentOID], inh.catalog.tupdesc[ChildOID],
                              ChildOID = ParentOID, Len(inh.rtable) + 1)

\* the child RTE with the column privileges translated, unless it is the parent
ChildRteWithPrivs(rte, childrte, translated_vars, is_parent) ==
    IF is_parent THEN childrte
    ELSE [childrte EXCEPT
            !.selectedCols = translate_col_privs(rte.selectedCols, translated_vars),
            !.insertedCols = translate_col_privs(rte.insertedCols, translated_vars),
            !.updatedCols = translate_col_privs(rte.updatedCols, translated_vars)]

\* the mutant: the child's row mark gets the mark type of the parent's
RowMarksWithChild_parent_type(rowMarks, oldrc, childrte, childRTindex, rti) ==
    LET old == rowMarks[oldrc]
        newrc == PlanRowMark(childRTindex, rti, old.rowmarkId, old.markType, old.strength,
                             old.waitPolicy, FALSE, FALSE)
    IN  IF oldrc = 0 THEN rowMarks
        ELSE Append([rowMarks EXCEPT ![oldrc].allMarkTypes = @ \cup newrc.allMarkTypes],
                    newrc)

\* the row marks after "Build a PlanRowMark if parent is marked FOR UPDATE/SHARE"
RowMarksWithChild(rowMarks, oldrc, childrte, childRTindex, rti) ==
    LET old == rowMarks[oldrc]
        markType == select_rowmark_type(childrte, old.strength)
        newrc == PlanRowMark(childRTindex, rti, old.rowmarkId, markType, old.strength,
                             old.waitPolicy, FALSE, FALSE)
    IN  IF oldrc = 0 THEN rowMarks
        ELSE Append([rowMarks EXCEPT ![oldrc].allMarkTypes = @ \cup newrc.allMarkTypes],
                    newrc)

\* a child RTE, an AppendRelInfo and, if needed, a row mark are built
ExpandInheritedRtentry_AddChild ==
    /\ Kept
    /\ ChildTranslation.errmsg = NoError
    /\ LET childRTindex == Len(inh.rtable) + 1
           tvars == ChildTranslation.translated_vars
           childrte == ChildRteWithPrivs(CurrentRte,
                                         ChildRte(CurrentRte, inh.catalog, ChildOID),
                                         tvars, ChildOID = ParentOID)
           appinfo == AppendRelInfo(inh.rti, childRTindex, ParentOID, tvars)
           opened == OpenChild(inh, ChildOID, ParentOID)
           built == [opened EXCEPT
                       !.rtable = Append(@, childrte),
                       !.local.child_relids = @ \cup {childRTindex},
                       !.local.appinfos = Append(@, appinfo),
                       !.rowMarks = RowMarksWithChild(@, inh.local.oldrc, childrte,
                                                      childRTindex, inh.rti)]
           closemode == IF ChildOID \in inh.catalog.long_lock
                          THEN "NoLock" ELSE inh.local.lockmode
       IN  inh' = NextChild(CloseChild(built, ChildOID, ParentOID, closemode))
    /\ InhUnchanged

\* make_inh_translation_list fails, after the child RTE was attached
ExpandInheritedRtentry_SchemaError ==
    /\ Kept
    /\ ChildTranslation.errmsg # NoError
    /\ LET opened == OpenChild(inh, ChildOID, ParentOID)
       IN  inh' = [opened EXCEPT
                     !.rtable = Append(@, ChildRte(CurrentRte, inh.catalog, ChildOID)),
                     !.local.child_relids = @ \cup {Len(inh.rtable) + 1},
                     !.pc = "error",
                     !.errmsg = ChildTranslation.errmsg]
    /\ InhUnchanged

Scanned ==
    /\ inh # <<>> /\ inh.pc = "scan"
    /\ inh.local.l > Len(inh.local.inhOIDs)

\* the state after the loop: the parent is closed and, for a partitioned
\* parent, its dynamic scan is registered
AfterScan(s) ==
    LET closed == heap_close(s, s.rtable[s.rti].relid, "NoLock")
        dsinfo == DynamicScanInfo(s.rtable[s.rti].relid, s.rti, s.local.child_relids,
                                  Len(s.dynamicScans) + 1)
    IN  IF s.local.parent_is_partitioned
          THEN [closed EXCEPT !.dynamicScans = Append(@, dsinfo)]
          ELSE closed

ExpandInheritedRtentry_NoAppinfos ==
    /\ Scanned
    /\ TooFewAppinfos(inh.local.appinfos)
    /\ inh' = ReturnToLoop(ClearInh(AfterScan(inh)), "no_appinfos")
    /\ InhUnchanged

\* "Otherwise, OK to add to root->append_rel_list"
ExpandInheritedRtentry_Register ==
    /\ Scanned
    /\ ~TooFewAppinfos(inh.local.appinfos)
    /\ inh' = ReturnToLoop([AfterScan(inh) EXCEPT
                              !.append_rel_list = @ \o inh.local.appinfos], "expanded")
    /\ InhUnchanged

-----------------------------------------------------------------------------
(* The catalogs and the queries that the expansion is run on: relation 1 is  *)
(* the parent, relations 2 and 3 are its possible inheritors                 *)

ParentTupdesc ==
    << Att("a", INT4OID, -1, InvalidOid, FALSE),
       Att("x", INT4OID, -1, InvalidOid, TRUE),
       Att("b", NUMERICOID, -1, InvalidOid, FALSE) >>

\* the same columns at other positions
ReorderedTupdesc ==
    << Att("b", NUMERICOID, -1, InvalidOid, FALSE),
       Att("a", INT4OID, -1, InvalidOid, FALSE) >>

\* column b of the parent is missing
IncompleteTupdesc == << Att("a", INT4OID, -1, InvalidOid, FALSE) >>

ChildTupdescs == {ParentTupdesc, ReorderedTupdesc, IncompleteTupdesc}

\* has_subclass of the parent and what find_all_inheritors returns for it;
\* has_subclass may be stale ("if table once had a child but no longer does")
Hierarchies ==
    { [has_subclass |-> {}, inheritors |-> <<1>>],
      [has_subclass |-> {1}, inheritors |-> <<1>>],
      [has_subclass |-> {1}, inheritors |-> <<1, 2>>],
      [has_subclass |-> {1}, inheritors |-> <<1, 2, 3>>],
      [has_subclass |-> {1}, inheritors |-> <<1, 3, 2>>] }

\* a plain parent, whose children may be temp tables of other backends, or a
\* partitioned one, whose children are leaves or not
Partitionings ==
    { [partitioned |-> {}, leaves |-> {}, other_temp |-> ot] : ot \in SUBSET {2, 3} }
    \cup { [partitioned |-> {1}, leaves |-> lv, other_temp |-> {}] : lv \in SUBSET {2, 3} }

Catalogs ==
    { [has_subclass |-> h.has_subclass,
       inheritors |-> [o \in RelOids |-> IF o = 1 THEN h.inheritors ELSE <<o>>],
       partitioned |-> p.partitioned, leaves |-> p.leaves, other_temp |-> p.other_temp,
       long_lock |-> ll,
       relkind |-> [o \in RelOids |-> IF o = 3 THEN rk ELSE RELKIND_RELATION],
       tupdesc |-> [o \in RelOids |-> IF o = 2 THEN td ELSE ParentTupdesc]] :
      h \in Hierarchies, p \in Partitionings, ll \in {{}, {2, 3}},
      rk \in {RELKIND_RELATION, RELKIND_FOREIGN_TABLE}, td \in ChildTupdescs }

\* column a, or the whole row and the system column tableoid
SelectedColsSets == { {PrivBit(1)}, {PrivBit(InvalidAttrNumber), PrivBit(-7)} }

\* the RTE of the parent, marked as an inheritance set or not
ParentRtes ==
    { RangeTblEntry("RTE_RELATION", 1, RELKIND_RELATION, i, ACL_SELECT, cols) :
        i \in BOOLEAN, cols \in SelectedColsSets }

\* a second RTE: an expanded UNION ALL subquery, or the childless relation 3
OtherRtes(catalog) ==
    { RangeTblEntry("RTE_SUBQUERY", NoRelid, "", TRUE, 0, {}) }
    \cup { RangeTblEntry("RTE_RELATION", 3, catalog.relkind[3], i, ACL_SELECT, {PrivBit(1)}) :
             i \in BOOLEAN }

\* no row mark, or the parent selected FOR UPDATE or FOR SHARE
RowMarkLists ==
    { <<>>,
      << PlanRowMark(1, 1, 1, "ROW_MARK_EXCLUSIVE", "LCS_FORUPDATE", "LockWaitBlock",
                     FALSE, FALSE) >>,
      << PlanRowMark(1, 1, 1, "ROW_MARK_SHARE", "LCS_FORSHARE", "LockWaitBlock",
                     FALSE, TRUE) >> }

InhState(catalog, rtable, resultRelation, rowMarks) ==
    [catalog |-> catalog, rtable |-> rtable, resultRelation |-> resultRelation,
     rowMarks |-> rowMarks, append_rel_list |-> <<>>, dynamicScans |-> <<>>,
     locks_acquired |-> {}, locks_held |-> {},
     opens |-> [o \in RelOids |-> 0], closes |-> [o \in RelOids |-> 0],
     pc |-> "start", nrtes |-> 0, rti |-> 0, errmsg |-> NoError,
     local |-> NoLocals, exit |-> "none",
     entry |-> [rtable |-> <<>>, rowMarks |-> <<>>, append_rel_list |-> <<>>,
                dynamicScans |-> <<>>]]

InitInh ==
    /\ \E c \in Catalogs, p \in ParentRtes, rr \in {0, 1}, rm \in RowMarkLists :
         \E o \in OtherRtes(c) : inh = InhState(c, <<p, o>>, rr, rm)
    /\ PlanIdle
    /\ ChooseIdle
    /\ CallIdle

NextInh ==
    \/ ExpandInheritedTables_Enter
    \/ ExpandInheritedTables_Call
    \/ ExpandInheritedTables_Return
    \/ ExpandInheritedRtentry_NotInherited
    \/ ExpandInheritedRtentry_NotRelation
    \/ ExpandInheritedRtentry_Childless
    \/ ExpandInheritedRtentry_FewInheritors
    \/ ExpandInheritedRtentry_OpenParent
    \/ ExpandInheritedRtentry_SkipOtherTemp
    \/ ExpandInheritedRtentry_SkipNonLeaf
    \/ ExpandInheritedRtentry_AddChild
    \/ ExpandInheritedRtentry_SchemaError
    \/ ExpandInheritedRtentry_NoAppinfos
    \/ ExpandInheritedRtentry_Register

SpecInh == InitInh /\ [][NextInh]_vars

-----------------------------------------------------------------------------
(* SpecTrans: make_inh_translation_list on a bounded set of pairs of tuple   *)
(* descriptors, then translate_col_privs through the list it returned        *)

\* tuple descriptors have at most MaxAtts columns
MaxAtts == 2

\* the name that a dropped column is given (it matches no column name)
DroppedName == "dropped"

DroppedAtt == Att(DroppedName, INT4OID, -1, InvalidOid, TRUE)

\* the columns of a parent: a and b, or a dropped column
ParentAtts ==
    { Att("a", INT4OID, -1, InvalidOid, FALSE),
      Att("b", NUMERICOID, 5, DefaultCollation, FALSE),
      DroppedAtt }

\* the columns of a child: a or b of any type, typmod and collation, or a
\* dropped column
ChildAtts ==
    { Att(n, t, m, c, FALSE) :
        n \in {"a", "b"}, t \in {INT4OID, NUMERICOID}, m \in {-1, 5},
        c \in {InvalidOid, DefaultCollation} }
    \cup {DroppedAtt}

\* the columns of a relation that are not dropped have distinct names
DistinctNames(tupdesc) ==
    \A i, j \in 1..Len(tupdesc) :
        (i # j /\ ~tupdesc[i].attisdropped /\ ~tupdesc[j].attisdropped)
            => tupdesc[i].attname # tupdesc[j].attname

TupdescsOver(atts, minlen) ==
    { d \in UNION { [1..n -> atts] : n \in minlen..MaxAtts } : DistinctNames(d) }

\* the column-privilege sets of the parent RTE: any of tableoid, the whole
\* row, column 1 and column 2
ParentPrivSets == SUBSET {PrivBit(-7), PrivBit(InvalidAttrNumber), PrivBit(1), PrivBit(2)}

TransCall(old_tupdesc, new_tupdesc, same_rel, newvarno, parent_privs) ==
    [old_tupdesc |-> old_tupdesc, new_tupdesc |-> new_tupdesc, same_rel |-> same_rel,
     newvarno |-> newvarno, parent_privs |-> parent_privs]

InitTrans ==
    /\ \E old \in TupdescsOver(ParentAtts, 1), privs \in ParentPrivSets :
          \/ call = TransCall(old, old, TRUE, 2, privs)
          \/ \E new \in TupdescsOver(ChildAtts, 0) :
                call = TransCall(old, new, FALSE, 3, privs)
    /\ callres = NoResult
    /\ PlanIdle
    /\ ChooseIdle
    /\ InhIdle

TransUnchanged == UNCHANGED <<call, planvars, choosevars, inh>>

MakeInhTranslationList ==
    /\ call # <<>> /\ callres = NoResult
    /\ LET made == make_inh_translation_list(call.old_tupdesc, call.new_tupdesc,
                                             call.same_rel, call.newvarno)
       IN  callres' = [outcome |-> IF made.errmsg = NoError THEN "translated" ELSE "error",
                       errmsg |-> made.errmsg,
                       translated_vars |-> made.translated_vars]
    /\ TransUnchanged

TranslateColPrivs ==
    /\ call # <<>> /\ callres.outcome = "translated"
    /\ callres' = [outcome |-> "privs", errmsg |-> NoError,
                   translated_vars |-> callres.translated_vars,
                   child_privs |-> translate_col_privs(call.parent_privs,
                                                       callres.translated_vars)]
    /\ TransUnchanged

NextTrans ==
    \/ MakeInhTranslationList
    \/ TranslateColPrivs

SpecTrans == InitTrans /\ [][NextTrans]_vars

-----------------------------------------------------------------------------
(* The schema translator: adjust_appendrel_attrs.  Nodes live in a heap, a   *)
(* sequence of records indexed by address; a pointer is an address and the   *)
(* NULL pointer is NullNode.  The walk threads a context record that holds   *)
(* the heap, the error raised so far, sublevels_up, the translation record   *)
(* and the global sub-plan lists.                                            *)

\* the NULL pointer
NullNode == 0

\* the varlevelsup of a Var is drawn from 0..MaxSublevels
MaxSublevels == 2

CMD_SELECT == "CMD_SELECT"
CMD_UPDATE == "CMD_UPDATE"
RECORDOID == "record"
COERCE_IMPLICIT_CAST == "COERCE_IMPLICIT_CAST"

\* the value of a cached field of a RestrictInfo that is not computed
NotComputed == -1

OidIsValid(oid) == oid # InvalidOid

HasFailed(ctx) == ctx.errmsg # NoError

\* what a step of the walk hands back: the context and the pointer it returns
Mutated(ctx, node) == [context |-> ctx, node |-> node]

\* one statement after another: the value of first is computed once and is
\* what Rest goes on with
AndThen(first, Rest(_)) == CHOOSE result \in { Rest(value) : value \in {first} } : TRUE

\* elog(ERROR, ...): the walk is abandoned with the message
elog(ctx, msg) == Mutated([ctx EXCEPT !.errmsg = msg], NullNode)

AttributeDoesNotExist(varattno) == <<"attribute does not exist", varattno>>

\* makeNode followed by the assignment of the fields: a new node at a new address
makeNode(ctx, fields) ==
    Mutated([ctx EXCEPT !.heap = Append(@, fields)], Len(ctx.heap) + 1)

\* copyObject of a node that has no child nodes (a Var, a CurrentOfExpr, a
\* RangeTblRef, a Plan of the global list); NULL is copied as NULL
copyObject(ctx, node) ==
    IF node = NullNode THEN Mutated(ctx, NullNode)
    ELSE makeNode(ctx, ctx.heap[node])

\* copyObject of a list of such nodes, cell by cell
RECURSIVE copyObjectList(_, _)
copyObjectList(ctx, list) ==
    IF list = <<>> THEN [context |-> ctx, nodes |-> <<>>]
    ELSE AndThen(copyObject(ctx, Head(list)), LAMBDA head :
         AndThen(copyObjectList(head.context, Tail(list)), LAMBDA rest :
             [context |-> rest.context, nodes |-> <<head.node>> \o rest.nodes]))

bms_is_member(x, ctx, relids) ==
    relids # NullNode /\ x \in ctx.heap[relids].members

\* Substitute newrelid for oldrelid in a Relid set: the set is copied only
\* when oldrelid is a member, otherwise the pointer handed in is returned
adjust_relid_set_in_place(ctx, relids, oldrelid, newrelid) ==
    IF bms_is_member(oldrelid, ctx, relids)
    THEN Mutated([ctx EXCEPT !.heap[relids].members = (@ \ {oldrelid}) \cup {newrelid}],
                 relids)
    ELSE Mutated(ctx, relids)

adjust_relid_set(ctx, relids, oldrelid, newrelid) ==
    IF bms_is_member(oldrelid, ctx, relids)
    THEN AndThen(makeNode(ctx, ctx.heap[relids]), LAMBDA copy :
             Mutated([copy.context EXCEPT
                        !.heap[copy.node].members = (@ \ {oldrelid}) \cup {newrelid}],
                     copy.node))
    ELSE Mutated(ctx, relids)

ConvertRowtypeExpr(arg, resulttype) ==
    [type |-> "ConvertRowtypeExpr", arg |-> arg, resulttype |-> resulttype,
     convertformat |-> COERCE_IMPLICIT_CAST]

RowExpr(args, row_typeid, colnames) ==
    [type |-> "RowExpr", args |-> args, row_typeid |-> row_typeid,
     row_format |-> COERCE_IMPLICIT_CAST, colnames |-> colnames]

\* the fields of a list of Vars have sublevels_up added to varlevelsup
RECURSIVE RaiseLevels(_, _)
RaiseLevels(ctx, fields) ==
    IF fields = <<>> THEN ctx
    ELSE AndThen([ctx EXCEPT !.heap[Head(fields)].varlevelsup = @ + ctx.sublevels_up],
                 LAMBDA raised : RaiseLevels(raised, Tail(fields)))

\* the test of lines 1979-1980: the Var refers to the parent at this level
RefersToParent_at_any_level(ctx, var) ==
    ctx.heap[var].varno = ctx.heap[ctx.appinfo].parent_relid

RefersToParent(ctx, var) ==
    /\ ctx.heap[var].varlevelsup = ctx.sublevels_up
    /\ ctx.heap[var].varno = ctx.heap[ctx.appinfo].parent_relid

\* the translation of a user column: a copy of its slot of translated_vars
TranslateColumn_unchecked(ctx, varattno) ==
    IF varattno > Len(ctx.heap[ctx.appinfo].translated_vars)
    THEN elog(ctx, AttributeDoesNotExist(varattno))
    ELSE AndThen(copyObject(ctx, ctx.heap[ctx.appinfo].translated_vars[varattno]),
                 LAMBDA newnode :
             IF newnode.node = NullNode
             THEN Mutated(newnode.context, NullNode)
             ELSE Mutated([newnode.context EXCEPT
                             !.heap[newnode.node].varlevelsup = @ + ctx.sublevels_up],
                          newnode.node))

TranslateColumn(ctx, varattno) ==
    IF varattno > Len(ctx.heap[ctx.appinfo].translated_vars)
    THEN elog(ctx, AttributeDoesNotExist(varattno))
    ELSE AndThen(copyObject(ctx, ctx.heap[ctx.appinfo].translated_vars[varattno]),
                 LAMBDA newnode :
             IF newnode.node = NullNode
             THEN elog(ctx, AttributeDoesNotExist(varattno))
             ELSE Mutated([newnode.context EXCEPT
                             !.heap[newnode.node].varlevelsup = @ + ctx.sublevels_up],
                          newnode.node))

\* the translation of a whole-row Var that has been copied and renumbered
TranslateWholeRow(ctx, var) ==
    LET appinfo == ctx.heap[ctx.appinfo]
    IN  IF OidIsValid(appinfo.child_reltype)
        THEN IF appinfo.parent_reltype # appinfo.child_reltype
             THEN AndThen(makeNode(ctx, ConvertRowtypeExpr(var, appinfo.parent_reltype)),
                          LAMBDA r :
                      Mutated([r.context EXCEPT
                                 !.heap[var].vartype = appinfo.child_reltype],
                              r.node))
             ELSE Mutated(ctx, var)
        ELSE AndThen(copyObjectList(ctx, appinfo.translated_vars), LAMBDA fields :
             AndThen(RaiseLevels(fields.context, fields.nodes), LAMBDA raised :
                 makeNode(raised, RowExpr(fields.nodes, ctx.heap[var].vartype,
                                          ctx.colnames))))

\* the Var case of the mutator, after the copy of the Var has been made
TranslateVar(copied) ==
    LET var == copied.node
        c0 == copied.context
        appinfo == c0.heap[c0.appinfo]
    IN  IF ~RefersToParent(c0, var) THEN copied
        ELSE AndThen([c0 EXCEPT !.heap[var].varno = appinfo.child_relid,
                                !.heap[var].varnoold = appinfo.child_relid],
                     LAMBDA c1 :
                 IF c0.heap[var].varattno > 0
                 THEN TranslateColumn(c1, c0.heap[var].varattno)
                 ELSE IF c0.heap[var].varattno = 0 THEN TranslateWholeRow(c1, var)
                 ELSE Mutated(c1, var))

\* the Var case of the mutator: the Var is copied, the copy is translated
MutateVar_in_place(ctx, node) == AndThen(Mutated(ctx, node), TranslateVar)

MutateVar(ctx, node) == AndThen(copyObject(ctx, node), TranslateVar)

\* the CurrentOfExpr and RangeTblRef cases: a copy, renumbered at level 0
MutateLeaf(ctx, node, field) ==
    AndThen(copyObject(ctx, node), LAMBDA copied :
        IF /\ ctx.sublevels_up = 0
           /\ ctx.heap[node][field] = ctx.heap[ctx.appinfo].parent_relid
        THEN Mutated([copied.context EXCEPT !.heap[copied.node][field] =
                          ctx.heap[ctx.appinfo].child_relid],
                     copied.node)
        ELSE copied)

\* the re-sort of adjust_inherited_tlist: the entries that are not junk in the
\* order of their resnos, then the junk entries, numbered after them
SortedTlist(ctx, tlist) ==
    LET entry(tle) == ctx.heap[tle]
        real == SelectSeq(tlist, LAMBDA tle : ~entry(tle).resjunk)
        junk == SelectSeq(tlist, LAMBDA tle : entry(tle).resjunk)
        resnos == { entry(real[i]).resno : i \in 1..Len(real) }
        last == CHOOSE n \in resnos : \A resno \in resnos : resno <= n
        RECURSIVE ByResno(_)
        ByResno(attrno) ==
            IF attrno > last THEN <<>>
            ELSE SelectSeq(real, LAMBDA tle : entry(tle).resno = attrno)
                     \o ByResno(attrno + 1)
        RECURSIVE NumberJunk(_, _)
        NumberJunk(c, i) ==
            IF i > Len(junk) THEN c
            ELSE AndThen([c EXCEPT !.heap[junk[i]].resno = last + i],
                         LAMBDA numbered : NumberJunk(numbered, i + 1))
    IN  [context |-> NumberJunk(ctx, 1), nodes |-> ByResno(1) \o junk]

\* the first loop of adjust_inherited_tlist, from entry i on: the resno of each
\* entry that is not junk becomes the attribute number of the child's column
RECURSIVE ChildResnos(_, _, _)
ChildResnos(ctx, tlist, i) ==
    IF i > Len(tlist) THEN ctx
    ELSE LET tle == ctx.heap[tlist[i]]
             translated_vars == ctx.heap[ctx.appinfo].translated_vars
         IN  IF tle.resjunk THEN ChildResnos(ctx, tlist, i + 1)
             ELSE IF tle.resno <= 0 \/ tle.resno > Len(translated_vars)
             THEN [ctx EXCEPT !.errmsg = AttributeDoesNotExist(tle.resno)]
             ELSE IF translated_vars[tle.resno] = NullNode
             THEN [ctx EXCEPT !.errmsg = AttributeDoesNotExist(tle.resno)]
             ELSE AndThen([ctx EXCEPT !.heap[tlist[i]].resno =
                               ctx.heap[translated_vars[tle.resno]].varattno],
                          LAMBDA renumbered : ChildResnos(renumbered, tlist, i + 1))

adjust_inherited_tlist(ctx, tlist) ==
    AndThen(ChildResnos(ctx, tlist, 1), LAMBDA renumbered :
        IF \/ HasFailed(renumbered)
           \/ \A i \in 1..Len(tlist) :
                 renumbered.heap[tlist[i]].resno = ctx.heap[tlist[i]].resno
        THEN [context |-> renumbered, nodes |-> tlist]
        ELSE SortedTlist(renumbered, tlist))

RECURSIVE adjust_appendrel_attrs_mutator(_, _)
RECURSIVE MutateList(_, _)
RECURSIVE expression_tree_mutator(_, _)
RECURSIVE query_tree_mutator(_, _)

\* the mutator applied to the cells of a list, in order; an error ends the walk
MutateList(ctx, list) ==
    IF list = <<>> \/ HasFailed(ctx) THEN [context |-> ctx, nodes |-> <<>>]
    ELSE AndThen(adjust_appendrel_attrs_mutator(ctx, Head(list)), LAMBDA head :
         AndThen(MutateList(head.context, Tail(list)), LAMBDA rest :
             [context |-> rest.context, nodes |-> <<head.node>> \o rest.nodes]))

\* expression_tree_mutator: a flat copy of the node whose child links are
\* replaced by the mutated children
expression_tree_mutator(ctx, node) ==
    AndThen(makeNode(ctx, ctx.heap[node]), LAMBDA new :
        CASE ctx.heap[node].type = "TargetEntry" ->
                AndThen(adjust_appendrel_attrs_mutator(new.context, ctx.heap[node].expr),
                        LAMBDA expr :
                    Mutated([expr.context EXCEPT !.heap[new.node].expr = expr.node],
                            new.node))
          [] ctx.heap[node].type = "SubLink" ->
                AndThen(adjust_appendrel_attrs_mutator(new.context,
                                                       ctx.heap[node].subselect),
                        LAMBDA subselect :
                    Mutated([subselect.context EXCEPT
                               !.heap[new.node].subselect = subselect.node],
                            new.node))
          [] OTHER ->
                AndThen(MutateList(new.context, ctx.heap[node].args), LAMBDA args :
                    Mutated([args.context EXCEPT !.heap[new.node].args = args.nodes],
                            new.node)))

\* query_tree_mutator: a flat copy of the Query whose target list is mutated
query_tree_mutator(ctx, query) ==
    AndThen(makeNode(ctx, ctx.heap[query]), LAMBDA new :
    AndThen(MutateList(new.context, ctx.heap[query].targetList), LAMBDA targetList :
        Mutated([targetList.context EXCEPT
                   !.heap[new.node].targetList = targetList.nodes],
                new.node)))

\* the relid sets of a RestrictInfo, in the order in which they are adjusted
RelidSetFields ==
    <<"clause_relids", "required_relids", "outer_relids", "nullable_relids",
      "left_relids", "right_relids">>

\* the relid sets of newinfo from set i on are the adjusted sets of oldinfo
RECURSIVE AdjustRelidSets(_, _, _, _)
AdjustRelidSets(ctx, oldinfo, newinfo, i) ==
    IF i > Len(RelidSetFields) THEN ctx
    ELSE AndThen(adjust_relid_set(ctx, ctx.heap[oldinfo][RelidSetFields[i]],
                                  ctx.heap[ctx.appinfo].parent_relid,
                                  ctx.heap[ctx.appinfo].child_relid),
                 LAMBDA relids :
             AdjustRelidSets([relids.context EXCEPT
                                !.heap[newinfo][RelidSetFields[i]] = relids.node],
                             oldinfo, newinfo, i + 1))

\* the cached fields of a RestrictInfo are reset
ResetCaches(info) ==
    [info EXCEPT !.eval_cost.startup = NotComputed,
                 !.norm_selec = NotComputed,
                 !.outer_selec = NotComputed,
                 !.left_em = NullNode,
                 !.right_em = NullNode,
                 !.scansel_cache = <<>>,
                 !.left_bucketsize = NotComputed,
                 !.right_bucketsize = NotComputed]

\* the RestrictInfo case: a flat copy whose clauses are mutated, whose relid
\* sets are adjusted and whose cached fields are reset
MutateRestrictInfo(ctx, oldinfo) ==
    AndThen(makeNode(ctx, ctx.heap[oldinfo]), LAMBDA newinfo :
    AndThen(adjust_appendrel_attrs_mutator(newinfo.context, ctx.heap[oldinfo].clause),
            LAMBDA clause :
    AndThen(adjust_appendrel_attrs_mutator(clause.context, ctx.heap[oldinfo].orclause),
            LAMBDA orclause :
        IF HasFailed(orclause.context) THEN Mutated(orclause.context, NullNode)
        ELSE AndThen(AdjustRelidSets([orclause.context EXCEPT
                                        !.heap[newinfo.node].clause = clause.node,
                                        !.heap[newinfo.node].orclause = orclause.node],
                                     oldinfo, newinfo.node, 1),
                     LAMBDA adjusted :
                 Mutated([adjusted EXCEPT !.heap[newinfo.node] = ResetCaches(@)],
                         newinfo.node)))))

\* the Query case: a sub-query is walked one level deeper
MutateQuery(ctx, node) ==
    AndThen(query_tree_mutator([ctx EXCEPT !.sublevels_up = @ + 1], node),
            LAMBDA newnode :
        IF HasFailed(newnode.context) THEN newnode
        ELSE Mutated([newnode.context EXCEPT !.sublevels_up = @ - 1], newnode.node))

\* the mutant: the copy of the SubPlan keeps pointing to the original plan
MutateSubPlan_no_clone(ctx, sp) == Mutated(ctx, sp)

\* the SubPlan step: a SubPlan that is not an initplan gets a copy of its plan
\* and of its planner state at the end of the global lists
MutateSubPlan(ctx, sp) ==
    IF ctx.heap[sp].is_initplan THEN Mutated(ctx, sp)
    ELSE AndThen(copyObject(ctx, ctx.subplans[ctx.heap[sp].plan_id]),
                 LAMBDA newsubplan :
         AndThen(makeNode(newsubplan.context,
                          ctx.heap[ctx.subroots[ctx.heap[sp].plan_id]]),
                 LAMBDA newsubroot :
             Mutated([newsubroot.context EXCEPT
                        !.subplans = Append(@, newsubplan.node),
                        !.subroots = Append(@, newsubroot.node),
                        !.heap[sp].plan_id = Len(ctx.subplans) + 1],
                     sp)))

adjust_appendrel_attrs_mutator(ctx, node) ==
    IF HasFailed(ctx) \/ node = NullNode THEN Mutated(ctx, NullNode)
    ELSE CASE ctx.heap[node].type = "Var" -> MutateVar(ctx, node)
           [] ctx.heap[node].type = "CurrentOfExpr" -> MutateLeaf(ctx, node, "cvarno")
           [] ctx.heap[node].type = "RangeTblRef" -> MutateLeaf(ctx, node, "rtindex")
           [] ctx.heap[node].type = "RestrictInfo" -> MutateRestrictInfo(ctx, node)
           [] ctx.heap[node].type = "Query" -> MutateQuery(ctx, node)
           [] OTHER ->
                AndThen(expression_tree_mutator(ctx, node), LAMBDA copy :
                    IF ~HasFailed(copy.context) /\ ctx.heap[node].type = "SubPlan"
                    THEN MutateSubPlan(copy.context, copy.node)
                    ELSE copy)

\* the Query at the top, after query_tree_mutator has returned newnode
AdjustResultRelation(newnode) ==
    LET c == newnode.context
        query == c.heap[newnode.node]
        appinfo == c.heap[c.appinfo]
    IN  IF HasFailed(c) \/ query.resultRelation # appinfo.parent_relid THEN newnode
        ELSE IF query.commandType # CMD_UPDATE
        THEN Mutated([c EXCEPT !.heap[newnode.node].resultRelation =
                                   appinfo.child_relid],
                     newnode.node)
        ELSE AndThen(adjust_inherited_tlist(
                         [c EXCEPT !.heap[newnode.node].resultRelation =
                                       appinfo.child_relid],
                         query.targetList),
                     LAMBDA tlist :
                 IF HasFailed(tlist.context) THEN Mutated(tlist.context, NullNode)
                 ELSE Mutated([tlist.context EXCEPT
                                 !.heap[newnode.node].targetList = tlist.nodes],
                              newnode.node))

adjust_appendrel_attrs(ctx, node) ==
    IF node # NullNode /\ ctx.heap[node].type = "Query"
    THEN AndThen(query_tree_mutator([ctx EXCEPT !.sublevels_up = 0], node),
                 AdjustResultRelation)
    ELSE adjust_appendrel_attrs_mutator([ctx EXCEPT !.sublevels_up = 0], node)

-----------------------------------------------------------------------------
(* The calls of adjust_appendrel_attrs that are explored.  The heap of a     *)
(* call starts with the two translated Vars, the AppendRelInfo, two plans of *)
(* the global list and their planner states; the tree follows them.          *)

VarNode(varno, varattno, vartype, varlevelsup) ==
    [type |-> "Var", varno |-> varno, varattno |-> varattno, vartype |-> vartype,
     varlevelsup |-> varlevelsup, varnoold |-> varno]

OpExpr(args) == [type |-> "OpExpr", args |-> args]

TargetEntry(expr, resno, resjunk) ==
    [type |-> "TargetEntry", expr |-> expr, resno |-> resno, resjunk |-> resjunk]

SubLink(subselect) == [type |-> "SubLink", subselect |-> subselect]

SubPlan(plan_id, is_initplan, args) ==
    [type |-> "SubPlan", plan_id |-> plan_id, is_initplan |-> is_initplan,
     args |-> args]

Query(commandType, resultRelation, targetList) ==
    [type |-> "Query", commandType |-> commandType,
     resultRelation |-> resultRelation, targetList |-> targetList]

Bitmapset(members) == [type |-> "Bitmapset", members |-> members]

\* the first addresses of every heap
TranslatedVarAddrs == <<1, 2>>
AppinfoAddr == Len(TranslatedVarAddrs) + 1
GlobSubplans == <<4, 5>>
GlobSubroots == <<6, 7>>
TreeBase == AppinfoAddr + Len(GlobSubplans) + Len(GlobSubroots)

\* the translation records: child columns in the parent's order or swapped,
\* a dropped column as a NULL slot, and the child's row type equal to the
\* parent's, different, or absent (then no slot is NULL)
AppendRelInfos ==
    { [type |-> "AppendRelInfo", parent_relid |-> 1, child_relid |-> 2,
       parent_reltype |-> "parent", child_reltype |-> child_reltype,
       translated_vars |-> translated_vars] :
         child_reltype \in {"parent", "child"},
         translated_vars \in {TranslatedVarAddrs, <<1, NullNode>>, <<NullNode, 2>>} }
    \cup
    { [type |-> "AppendRelInfo", parent_relid |-> 1, child_relid |-> 2,
       parent_reltype |-> InvalidOid, child_reltype |-> InvalidOid,
       translated_vars |-> TranslatedVarAddrs] }

\* the nodes at the addresses 1..TreeBase
BaseHeap(appinfo, swapped) ==
    << VarNode(appinfo.child_relid, IF swapped THEN 2 ELSE 1, INT4OID, 0),
       VarNode(appinfo.child_relid, IF swapped THEN 1 ELSE 2, INT4OID, 0),
       appinfo,
       [type |-> "Plan", plan |-> "A"],
       [type |-> "Plan", plan |-> "B"],
       [type |-> "PlannerInfo", plan |-> "A"],
       [type |-> "PlannerInfo", plan |-> "B"] >>

\* the type of a Var: a whole-row Var of the parent has the parent's row type
VarType(appinfo, varno, varattno) ==
    IF varattno # 0 THEN INT4OID
    ELSE IF varno = appinfo.parent_relid /\ OidIsValid(appinfo.parent_reltype)
    THEN appinfo.parent_reltype
    ELSE RECORDOID

Vars(appinfo) ==
    { VarNode(varno, varattno, VarType(appinfo, varno, varattno), varlevelsup) :
        varno \in {appinfo.parent_relid, MaxRels},
        varattno \in (-1)..(MaxAtts + 1),
        varlevelsup \in 0..MaxSublevels }

FewVars(appinfo) ==
    { v \in Vars(appinfo) : /\ v.varno = appinfo.parent_relid
                            /\ v.varattno \in {-1, 1}
                            /\ v.varlevelsup \in {0, 1} }

\* a tree: the nodes that follow the base heap, the last one is the root
At(i) == TreeBase + i

BareVars(a) == { <<v>> : v \in Vars(a) }

\* v inside a sub-query, w after it at the level of the top
SubLinkTrees(a) ==
    { << v, TargetEntry(At(1), 1, FALSE), Query(CMD_SELECT, 0, <<At(2)>>),
         SubLink(At(3)), w, OpExpr(<<At(4), At(5)>>) >> :
        v \in Vars(a), w \in FewVars(a) }

\* v two sub-queries deep
NestedSubLinkTrees(a) ==
    { << v, TargetEntry(At(1), 1, FALSE), Query(CMD_SELECT, 0, <<At(2)>>),
         SubLink(At(3)), TargetEntry(At(4), 1, FALSE),
         Query(CMD_SELECT, 0, <<At(5)>>), SubLink(At(6)), w,
         OpExpr(<<At(7), At(8)>>) >> :
        v \in Vars(a), w \in FewVars(a) }

\* a Query at the top, a SELECT or UPDATE of the parent or of another relation
QueryTrees(a) ==
    { << v, TargetEntry(At(1), resnos[1], FALSE),
         w, TargetEntry(At(3), resnos[2], resjunk),
         Query(commandType, resultRelation, <<At(2), At(4)>>) >> :
        v \in Vars(a), w \in FewVars(a), resnos \in {<<1, 2>>, <<2, 1>>},
        resjunk \in BOOLEAN, commandType \in {CMD_SELECT, CMD_UPDATE},
        resultRelation \in {0, a.parent_relid} }

\* a sub-query under a Query at the top
QuerySubLinkTrees(a) ==
    { << v, TargetEntry(At(1), 1, FALSE), Query(CMD_SELECT, 0, <<At(2)>>),
         SubLink(At(3)), TargetEntry(At(4), 1, FALSE),
         w, TargetEntry(At(6), 2, FALSE),
         Query(CMD_SELECT, 0, <<At(5), At(7)>>) >> :
        v \in Vars(a), w \in FewVars(a) }

RelidSets(a) == {{}, {a.parent_relid}, {MaxRels}, {a.parent_relid, MaxRels}}

\* the pointer to the relid set at address i: the empty set is a NULL pointer
RelidsAt(i, members) == IF members = {} THEN NullNode ELSE At(i)

\* a RestrictInfo with its six relid sets, with and without cached values
RestrictInfoTrees(a) ==
    { << v, w,
         Bitmapset(clause_relids), Bitmapset(required_relids),
         Bitmapset({MaxRels}), Bitmapset({}),
         Bitmapset(left_relids), Bitmapset({a.parent_relid, MaxRels}),
         [type |-> "EquivalenceClass"], [type |-> "EquivalenceMember"],
         [type |-> "RestrictInfo", clause |-> At(1),
          orclause |-> IF cached THEN At(2) ELSE NullNode,
          clause_relids |-> RelidsAt(3, clause_relids),
          required_relids |-> RelidsAt(4, required_relids),
          outer_relids |-> At(5), nullable_relids |-> NullNode,
          left_relids |-> RelidsAt(7, left_relids), right_relids |-> At(8),
          left_ec |-> At(9), right_ec |-> NullNode,
          eval_cost |-> [startup |-> IF cached THEN 1 ELSE NotComputed,
                         per_tuple |-> IF cached THEN 1 ELSE 0],
          norm_selec |-> IF cached THEN 1 ELSE NotComputed,
          outer_selec |-> IF cached THEN 1 ELSE NotComputed,
          left_em |-> IF cached THEN At(10) ELSE NullNode,
          right_em |-> IF cached THEN At(10) ELSE NullNode,
          scansel_cache |-> IF cached THEN <<At(10)>> ELSE <<>>,
          left_bucketsize |-> IF cached THEN 1 ELSE NotComputed,
          right_bucketsize |-> IF cached THEN 1 ELSE NotComputed] >> :
        v \in Vars(a), w \in {x \in FewVars(a) : x.varattno = 1 /\ x.varlevelsup = 0},
        clause_relids \in RelidSets(a), required_relids \in RelidSets(a),
        left_relids \in {{}, {a.parent_relid}}, cached \in BOOLEAN }

\* two SubPlans that refer to plans of the global list
SubPlanTrees(a) ==
    { << v, SubPlan(first, first_is_initplan, <<At(1)>>),
         SubPlan(second, second_is_initplan, <<>>),
         OpExpr(<<At(2), At(3)>>) >> :
        v \in FewVars(a), first \in {1, 2}, second \in {1, 2},
        first_is_initplan \in BOOLEAN, second_is_initplan \in BOOLEAN }

\* the leaves that carry a range-table index, at the top and in a sub-query
LeafTrees(a) ==
    { << [type |-> "RangeTblRef", rtindex |-> rtindex],
         [type |-> "CurrentOfExpr", cvarno |-> cvarno],
         OpExpr(<<At(1), At(2)>>) >> :
        rtindex \in {a.parent_relid, MaxRels}, cvarno \in {a.parent_relid, MaxRels} }
    \cup
    { << [type |-> "RangeTblRef", rtindex |-> rtindex],
         TargetEntry(At(1), 1, FALSE), Query(CMD_SELECT, 0, <<At(2)>>),
         SubLink(At(3)) >> :
        rtindex \in {a.parent_relid, MaxRels} }

Trees(a) ==
    BareVars(a) \cup SubLinkTrees(a) \cup NestedSubLinkTrees(a) \cup QueryTrees(a)
        \cup QuerySubLinkTrees(a) \cup RestrictInfoTrees(a) \cup SubPlanTrees(a)
        \cup LeafTrees(a)

AdjustCall(appinfo, swapped, tree) ==
    [heap |-> BaseHeap(appinfo, swapped) \o tree, node |-> TreeBase + Len(tree),
     appinfo |-> AppinfoAddr, subplans |-> GlobSubplans, subroots |-> GlobSubroots,
     colnames |-> <<"a", "b">>]

InitAdjust ==
    /\ \E appinfo \in AppendRelInfos, swapped \in BOOLEAN :
          \E tree \in Trees(appinfo) : call = AdjustCall(appinfo, swapped, tree)
    /\ callres = NoResult
    /\ PlanIdle
    /\ ChooseIdle
    /\ InhIdle

\* the context of a call: nothing has failed, sublevels_up is not yet set
EntryContext ==
    [heap |-> call.heap, errmsg |-> NoError, sublevels_up |-> MaxSublevels + 1,
     appinfo |-> call.appinfo, subplans |-> call.subplans,
     subroots |-> call.subroots, colnames |-> call.colnames]

AdjustAppendrelAttrs ==
    /\ call # <<>> /\ callres = NoResult
    /\ \E done \in {adjust_appendrel_attrs(EntryContext, call.node)} :
          callres' = [outcome |-> IF HasFailed(done.context) THEN "error"
                                  ELSE "adjusted",
                      errmsg |-> done.context.errmsg,
                      node |-> done.node,
                      heap |-> done.context.heap,
                      sublevels_up |-> done.context.sublevels_up,
                      subplans |-> done.context.subplans,
                      subroots |-> done.context.subroots]
    /\ TransUnchanged

NextAdjust == AdjustAppendrelAttrs

SpecAdjust == InitAdjust /\ [][NextAdjust]_vars

-----------------------------------------------------------------------------
(* SpecTlist: one call of generate_append_tlist or generate_setop_grouplist  *)
(* on a bounded set of arguments                                             *)

\* generate_append_tlist is given 2..MaxSiblings input target lists
MaxSiblings == 3

\* the typmods of the columns of the input target lists
Typmods == {-1, 1, 2}

\* the target list of child number k of a set operation, as generate_setop_tlist
\* leaves it: columns of the given types and typmods, then the flag if asked for
SiblingTlist(k, types, typmods, flag) ==
    LET cols == [i \in 1..Len(types) |->
                   [makeTargetEntry(makeVar(k, i, types[i], typmods[i], DefaultCollation),
                                    i, <<k, i>>, FALSE)
                      EXCEPT !.ressortgroupref = i]]
    IN  IF flag THEN Append(cols, SetopFlagColumn(k - 1, Len(types) + 1)) ELSE cols

SiblingTlists(k, ncols, flag) ==
    { SiblingTlist(k, types, typmods, flag) :
        types \in [1..ncols -> {INT4OID, NUMERICOID}], typmods \in [1..ncols -> Typmods] }

\* the outcome of generate_setop_grouplist: the list returned, or how the call
\* ended, and op->groupClauses as the call left it
GrouplistOutcome(status, grouplist, op) ==
    [status |-> status, grouplist |-> grouplist, op |-> op]

\* generate_setop_grouplist in a build with assertion checking
\* (USE_ASSERT_CHECKING) or without it.  Only Asserts compare the number of
\* clauses with the number of columns.  Compiled out, a surplus clause is
\* left as it is, and a surplus column reads the NULL list cell, which is
\* undefined: the process gets a signal, or the call goes on and returns.
generate_setop_grouplist_outcomes(op, targetlist, USE_ASSERT_CHECKING) ==
    LET ncols == Len(NonJunk(targetlist))
        nclauses == Len(op.groupClauses)
        returned == GrouplistOutcome("returned", generate_setop_grouplist(op, targetlist), op)
    IN  IF ncols = nclauses THEN {returned}
        ELSE IF USE_ASSERT_CHECKING THEN {GrouplistOutcome("TRAP", <<>>, op)}
        ELSE IF ncols < nclauses THEN {returned}
        ELSE {GrouplistOutcome("SIGSEGV", <<>>, op), returned}

InitTlist ==
    /\ \/ \E ncols \in 1..MaxCols, flag \in BOOLEAN, n \in 2..MaxSiblings :
            \E colTypes \in [1..ncols -> {INT4OID, NUMERICOID}],
               input_tlists \in [1..n -> SiblingTlists(1, ncols, flag)] :
               call = [fn |-> "generate_append_tlist", colTypes |-> colTypes,
                       colCollations |-> ColCollations(ncols), flag |-> flag,
                       input_tlists |-> input_tlists,
                       refnames_tlist |-> LeafTlist(1, ncols)]
       \/ \E ncols \in 0..(MaxCols + 1), nclauses \in 0..(MaxCols + 1), flag \in BOOLEAN,
             USE_ASSERT_CHECKING \in BOOLEAN :
               call = [fn |-> "generate_setop_grouplist",
                       op |-> [groupClauses |-> GroupClauses(nclauses)],
                       targetlist |-> SiblingTlist(1, ColTypes(ncols, FALSE),
                                                   [i \in 1..ncols |-> -1], flag),
                       USE_ASSERT_CHECKING |-> USE_ASSERT_CHECKING]
    /\ callres = NoResult
    /\ PlanIdle
    /\ ChooseIdle
    /\ InhIdle

GenerateAppendTlist ==
    /\ callres = NoResult
    /\ call.fn = "generate_append_tlist"
    /\ callres' = [tlist |-> generate_append_tlist(call.colTypes, call.colCollations,
                                 call.flag, call.input_tlists, call.refnames_tlist)]
    /\ TransUnchanged

GenerateSetopGrouplist ==
    /\ callres = NoResult
    /\ call.fn = "generate_setop_grouplist"
    /\ \E outcome \in generate_setop_grouplist_outcomes(call.op, call.targetlist,
                                                        call.USE_ASSERT_CHECKING) :
          callres' = outcome
    /\ TransUnchanged

NextTlist ==
    \/ GenerateAppendTlist
    \/ GenerateSetopGrouplist

SpecTlist == InitTlist /\ [][NextTlist]_vars

-----------------------------------------------------------------------------
(* Properties of plan_set_operations, checked under Spec *)

TopOp == parse.setOperations

\* the set operations of a tree, the top one first
RECURSIVE SetOpsOf(_)
SetOpsOf(node) ==
    IF IsA(node, "RangeTblRef") THEN <<>>
    ELSE <<node>> \o SetOpsOf(node.larg) \o SetOpsOf(node.rarg)

\* a tree built only from UNION / UNION ALL nodes with identical column types
OnlyUnions(tree) ==
    \A i \in 1..Len(SetOpsOf(tree)) :
        /\ SetOpsOf(tree)[i].op = SETOP_UNION
        /\ SetOpsOf(tree)[i].colTypes = tree.colTypes

\* no UNION (DISTINCT) below a UNION ALL top node
NoDistinctBelowAll(tree) ==
    tree.all => \A i \in 1..Len(SetOpsOf(tree)) : SetOpsOf(tree)[i].all

\* the number of nodes of a path tree whose type is in types
RECURSIVE CountPaths(_, _)
CountPathsIn(pathlist, types) ==
    LET RECURSIVE Sum(_)
        Sum(i) == IF i = 0 THEN 0 ELSE Sum(i - 1) + CountPaths(pathlist[i], types)
    IN  Sum(Len(pathlist))
CountPaths(path, types) ==
    (IF path.pathtype \in types THEN 1 ELSE 0) + CountPathsIn(path.subpaths, types)

\* the topmost Append of a path
RECURSIVE TopAppend(_)
TopAppend(path) ==
    IF path.pathtype = "Append" THEN path ELSE TopAppend(path.subpaths[1])

DedupSteps == {"Agg", "Unique"}

Flattened(tree, path) ==
    /\ Len(TopAppend(path).subpaths) = LeafCount(tree)
    /\ CountPaths(path, {"Append"}) = 1
    /\ CountPaths(path, DedupSteps) = IF tree.all THEN 0 ELSE 1

\* C1, as stated: a planned tree of nested UNION / UNION ALL nodes with
\* identical column types has one Append over all its leaves, and one dedup
\* step if the top node is DISTINCT, none if it is ALL.
C1_UnionTreeFlattened ==
    (pc = "done" /\ OnlyUnions(TopOp)) => Flattened(TopOp, ret.path)

\* C1, amended: the same, for the trees in which no UNION (DISTINCT) node lies
\* below a UNION ALL top node.
C1_FoldableUnionTreeFlattened ==
    (pc = "done" /\ OnlyUnions(TopOp) /\ NoDistinctBelowAll(TopOp)) =>
        Flattened(TopOp, ret.path)

\* a planned UNION (DISTINCT) over three leaves with a UNION ALL child
C1_Witness ==
    /\ pc = "done" /\ OnlyUnions(TopOp) /\ LeafCount(TopOp) = 3
    /\ ~TopOp.all
    /\ SetOpsOf(TopOp)[2].all
    /\ Len(TopAppend(ret.path).subpaths) = 3
    /\ CountPaths(ret.path, DedupSteps) = 1

\* the path below the Motion that collocates it, if there is one
Unmotion(path) == IF path.pathtype = "Motion" THEN path.subpaths[1] ELSE path

\* the flag value that the resjunk column of a child's target list holds
FlagOf(tlist) == tlist[Len(tlist)].expr.varno

\* what a return of generate_nonunion_path built from the left and the right
\* child: the inputs of the Append are <<first, second>>, each collocated (if
\* at all) on its own target list
AppendInputsAre(result, first, second) ==
    LET inputs == TopAppend(result.path).subpaths
    IN  /\ Len(inputs) = 2
        /\ Unmotion(inputs[1]) = first.path
        /\ Unmotion(inputs[2]) = second.path
        /\ inputs[1].pathtype = "Motion" => inputs[1].info.hashExprs = first.tlist
        /\ inputs[2].pathtype = "Motion" => inputs[2].info.hashExprs = second.tlist

\* C2: whenever generate_nonunion_path returns, the inputs of its Append are
\* the left child then the right child for EXCEPT, whatever the estimates are,
\* and for INTERSECT the child with fewer estimated groups first (the left one
\* on a tie); each child path stays paired with its own target list.
C2_InputOrder ==
    [][(Running("generate_nonunion_path", "rarg") /\ pc' = "run") =>
         IF Top.op.op = SETOP_EXCEPT \/ Top.left.numGroups <= ret.numGroups
           THEN AppendInputsAre(ret', Top.left, ret)
           ELSE AppendInputsAre(ret', ret, Top.left)]_vars

\* a planned EXCEPT of two leaves whose right input has no more rows, hence
\* fewer or as many groups, than the left one has rows: the left one is first
C2_WitnessExcept ==
    /\ pc = "done" /\ TopOp.op = SETOP_EXCEPT /\ LeafCount(TopOp) = 2
    /\ Unmotion(TopAppend(ret.path).subpaths[1]).info.rtindex = 1
    /\ Unmotion(TopAppend(ret.path).subpaths[1]).rows
         > Unmotion(TopAppend(ret.path).subpaths[2]).rows

\* a planned INTERSECT of two leaves whose right input was put first
C2_Witness ==
    /\ pc = "done" /\ TopOp.op = SETOP_INTERSECT /\ LeafCount(TopOp) = 2
    /\ Unmotion(TopAppend(ret.path).subpaths[1]).info.rtindex = 2
    /\ Unmotion(TopAppend(ret.path).subpaths[2]).info.rtindex = 1

\* C6: every call of choose_hashed_setop reads, as root->tuple_fraction, the
\* tuple fraction that plan_set_operations was entered with.
C6_DecisionsReadEntryFraction ==
    \A i \in 1..Len(decisions) : FracEq(decisions[i].tuple_fraction, entry_fraction)

\* C6, for the top node alone: the decision made for a top-level UNION
\* (DISTINCT), the last one of the pass, reads the tuple fraction that
\* plan_set_operations was entered with.
C6_TopLevelUnionReadsEntryFraction ==
    (pc = "done" /\ TopOp.op = SETOP_UNION /\ ~TopOp.all) =>
        FracEq(decisions[Len(decisions)].tuple_fraction, entry_fraction)

\* the frames of the stack and the last return value hold every path built
PathsOfResult(v) ==
    IF v = <<>> THEN <<>>
    ELSE IF "pathlist" \in DOMAIN v THEN v.pathlist
    ELSE <<v.path>>

RECURSIVE PathsOfStack(_)
PathsOfStack(frames) ==
    IF frames = <<>> THEN <<>>
    ELSE (IF "left" \in DOMAIN frames[1] THEN PathsOfResult(frames[1].left) ELSE <<>>)
         \o PathsOfStack(Tail(frames))

PathsBuilt == PathsOfResult(ret) \o PathsOfStack(stack)

NoColumns == TopOp.colTypes = <<>>

\* C7: planning a set operation over no columns never calls choose_hashed_setop
\* and never builds a SetOp, Agg, Unique or Sort step; it ends only with the
\* error "<construct> over no columns is not supported" raised by the first
\* INTERSECT, EXCEPT or UNION (DISTINCT) to be completed, or, when every node is
\* a UNION ALL, without error.
C7_NoColumnsRejected ==
    (pc # "idle" /\ NoColumns) =>
        /\ decisions = <<>>
        /\ CountPathsIn(PathsBuilt, {"SetOp", "Agg", "Unique", "Sort"}) = 0
        /\ pc = "error" =>
             /\ ~(Top.op.op = SETOP_UNION /\ Top.op.all)
             /\ errmsg = <<"over no columns is not supported", Top.op.op>>
        /\ pc = "done" =>
             \A i \in 1..Len(SetOpsOf(TopOp)) :
                 SetOpsOf(TopOp)[i].op = SETOP_UNION /\ SetOpsOf(TopOp)[i].all

\* a UNION (DISTINCT) over no columns and three leaves, rejected by
\* make_union_unique
C7_Witness ==
    /\ pc = "error" /\ NoColumns /\ LeafCount(TopOp) = 3
    /\ errmsg = <<"over no columns is not supported", "UNION">>
    /\ Top.fn = "generate_union_path"
    /\ decisions = <<>>

\* the target lists that a return handed back, in order
TlistsOfResult(v) ==
    IF v = <<>> THEN <<>>
    ELSE IF "tlist_list" \in DOMAIN v THEN v.tlist_list
    ELSE <<v.tlist>>

\* the target lists that the caller in frame i has kept from an earlier return
TlistsOfFrame(i) ==
    IF "left" \in DOMAIN stack[i] THEN TlistsOfResult(stack[i].left) ELSE <<>>

\* resno counts the entries from 1; ressortgroupref is resno for a column and
\* 0 for a resjunk entry
WellNumbered(tlist) ==
    \A i \in 1..Len(tlist) :
        /\ tlist[i].resno = i
        /\ tlist[i].ressortgroupref = IF tlist[i].resjunk THEN 0 ELSE i

\* C22: in every target list that recurse_set_operations returns, for a leaf
\* and for a set operation at any depth (the lists that generate_setop_tlist
\* and generate_append_tlist build), the resnos are 1..n in list order, every
\* entry that is not resjunk has ressortgroupref equal to its resno and every
\* resjunk flag entry has ressortgroupref 0.
C22_TlistsWellNumbered ==
    /\ \A k \in 1..Len(TlistsOfResult(ret)) : WellNumbered(TlistsOfResult(ret)[k])
    /\ \A i \in 1..Len(stack) :
          \A k \in 1..Len(TlistsOfFrame(i)) : WellNumbered(TlistsOfFrame(i)[k])
    /\ WellNumbered(root.processed_tlist)

\* a set operation that is the right child of an INTERSECT or EXCEPT returned
\* its projected list, one column and the flag entry after it, and the caller
\* holds the list of the left child
C22_Witness ==
    /\ Running("generate_nonunion_path", "rarg")
    /\ IsA(Top.op.rarg, "SetOperationStmt")
    /\ Len(ret.tlist) = 2
    /\ ~ret.tlist[1].resjunk /\ ret.tlist[2].resjunk
    /\ Len(Top.left.tlist) = 2

\* the running call of recurse_set_operations returns in this step
RecurseSetOperationsReturns ==
    /\ pc = "run" /\ stack # <<>>
    /\ Top.fn = "recurse_set_operations"
    /\ pc' = "run"
    /\ Len(stack') = Len(stack) - 1

\* the columns of tlist expose the types and collations asked for, in order
ExposesAsDeclared(tlist, colTypes, colCollations) ==
    /\ Len(NonJunk(tlist)) = Len(colTypes)
    /\ \A i \in 1..Len(colTypes) :
          /\ exprType(NonJunk(tlist)[i].expr) = colTypes[i]
          /\ exprCollation(NonJunk(tlist)[i].expr) = colCollations[i]

\* C23: whenever a call of recurse_set_operations returns, the i-th entry of
\* the returned target list that is not resjunk has the exposed type
\* colTypes[i] and the exposed collation colCollations[i] the caller passed,
\* for a leaf and for a set operation whose own declared types or collations
\* differ from the caller's (a projection is put on top of it).
C23_ReturnedColumnsAsDeclared ==
    [][RecurseSetOperationsReturns
         => ExposesAsDeclared(ret'.tlist, Top.colTypes, Top.colCollations)]_vars

\* a set operation declaring NUMERICOID below one declaring INT4OID has
\* returned: its column is coerced in a projection above its own path
C23_Witness ==
    /\ pc = "run"
    /\ ret # <<>>
    /\ "tlist" \in DOMAIN ret
    /\ Len(ret.tlist) > 0
    /\ ret.tlist[1].expr.tag = "Coerce"
    /\ ret.tlist[1].expr.type = INT4OID
    /\ ret.path.pathtype # "SubqueryScan"

\* the running call of recurse_union_children returns in this step
RecurseUnionChildrenReturns ==
    /\ pc = "run" /\ stack # <<>>
    /\ Top.fn = "recurse_union_children"
    /\ pc' = "run"
    /\ Len(stack') = Len(stack) - 1

\* every list has one entry per declared column of the UNION and none is resjunk
ChildTlistsPlain(tlist_list, top_union) ==
    \A k \in 1..Len(tlist_list) :
        /\ Len(tlist_list[k]) = Len(top_union.colTypes)
        /\ \A i \in 1..Len(tlist_list[k]) : ~tlist_list[k][i].resjunk

\* C27: every child target list that recurse_union_children collects has no
\* resjunk flag column and exactly as many entries as the UNION declares
\* column types, also for an INTERSECT or EXCEPT child whose Append list has
\* a flag column; so all the lists that generate_union_path appends have the
\* same number of columns.
C27_UnionChildTlistsPlain ==
    [][/\ RecurseUnionChildrenReturns
            => ChildTlistsPlain(ret'.tlist_list, Top.top_union)
       /\ Running("generate_union_path", "rarg")
            => ChildTlistsPlain(Top.left.tlist_list \o ret.tlist_list, Top.op)]_vars

\* generate_union_path has collected the lists of its children, the right one
\* being an INTERSECT or EXCEPT over one column
C27_Witness ==
    /\ Running("generate_union_path", "rarg")
    /\ IsA(Top.op.rarg, "SetOperationStmt")
    /\ Top.op.rarg.op # SETOP_UNION
    /\ Len(Top.op.colTypes) = 1
    /\ Len(ret.tlist_list) = 1
    /\ Len(ret.tlist_list[1]) = 1

\* the call of generate_union_path or generate_nonunion_path in this frame has
\* told its children to fetch all tuples
ForcesAllTuples(frame) ==
    /\ frame.fn \in {"generate_union_path", "generate_nonunion_path"}
    /\ frame.phase # "enter"
    /\ frame.fn = "generate_union_path" => ~frame.op.all

\* the tuple fraction in force for the calls in frames, the caller's last:
\* the one plan_set_operations was entered with, unless a UNION (DISTINCT),
\* INTERSECT or EXCEPT among the callers is planning its children
RECURSIVE FractionInForce(_)
FractionInForce(frames) ==
    IF frames = <<>> THEN entry_fraction
    ELSE IF ForcesAllTuples(frames[1]) THEN FracZero
    ELSE FractionInForce(Tail(frames))

\* C29: a call of generate_union_path or generate_nonunion_path that returns
\* leaves root->tuple_fraction as it was on entry, at any depth, so that the
\* fraction is the caller's again when plan_set_operations has returned; while
\* the children of a UNION (DISTINCT), INTERSECT or EXCEPT are planned the
\* fraction is 0, and while those of a UNION ALL are planned it is the one in
\* force when the UNION ALL was entered.
C29_TupleFractionRestored ==
    /\ pc = "run" => root.tuple_fraction = FractionInForce(stack)
    /\ pc = "done" => root.tuple_fraction = entry_fraction

\* a UNION ALL below a UNION (DISTINCT), INTERSECT or EXCEPT has returned to
\* it, and the caller asked for a fraction of the output
C29_Witness ==
    /\ pc = "run"
    /\ Len(stack) >= 3
    /\ Top.fn = "recurse_set_operations" /\ Top.phase = "project"
    /\ Top.setOp.op = SETOP_UNION /\ Top.setOp.all
    /\ entry_fraction # FracZero
    /\ root.tuple_fraction = FracZero
    /\ "path" \in DOMAIN ret /\ ret.path.pathtype = "Append"

\* planning is done for a tree whose top is a UNION (DISTINCT), and the
\* fraction is the caller's again
C29_WitnessDone ==
    /\ pc = "done"
    /\ TopOp.op = SETOP_UNION /\ ~TopOp.all
    /\ entry_fraction # FracZero
    /\ root.tuple_fraction = entry_fraction

\* the running call of generate_nonunion_path returns in this step
GenerateNonunionPathReturns ==
    /\ Running("generate_nonunion_path", "rarg")
    /\ pc' = "run"
    /\ Len(stack') = Len(stack) - 1

\* the last entry of tlist is a resjunk entry of the given kind at position pos
EndsWithFlag(tlist, pos, tag) ==
    /\ Len(tlist) = pos
    /\ tlist[pos].resno = pos
    /\ tlist[pos].resjunk
    /\ tlist[pos].expr.tag = tag

\* the result of the child whose path is the first input of the Append built
FirstInput(result, left, right) ==
    IF Unmotion(TopAppend(result.path).subpaths[1]) = left.path THEN left ELSE right

\* C30: in generate_nonunion_path the target list of the left child ends with
\* a resjunk Const 0 and that of the right child with a resjunk Const 1, each
\* at position (number of declared columns + 1); the Append's target list has
\* its resjunk flag Var at the same position, which is the flagColIdx given to
\* the SetOp; and the firstFlag given to the SetOp is the flag of the child
\* that is first in the Append when hashing is used, and -1 when sorting is.
C30_FlagColumnConsistent ==
    [][/\ Running("generate_nonunion_path", "rarg") =>
            /\ EndsWithFlag(Top.left.tlist, Len(Top.op.colTypes) + 1, "Const")
            /\ FlagOf(Top.left.tlist) = 0
            /\ EndsWithFlag(ret.tlist, Len(Top.op.colTypes) + 1, "Const")
            /\ FlagOf(ret.tlist) = 1
       /\ GenerateNonunionPathReturns =>
            /\ EndsWithFlag(ret'.tlist, Len(Top.op.colTypes) + 1, "Var")
            /\ ret'.tlist[Len(ret'.tlist)].expr.varattno = Len(Top.op.colTypes) + 1
            /\ ret'.path.pathtype = "SetOp"
            /\ ret'.path.info.flagColIdx = Len(Top.op.colTypes) + 1
            /\ ret'.path.info.firstFlag
                 = IF ret'.path.info.strategy = "SETOP_HASHED"
                     THEN FlagOf(FirstInput(ret', Top.left, ret).tlist)
                     ELSE -1]_vars

\* a hashed INTERSECT over one column whose right child was put first
C30_Witness ==
    /\ pc = "run"
    /\ ret # <<>>
    /\ "path" \in DOMAIN ret
    /\ ret.path.pathtype = "SetOp"
    /\ ret.path.info.strategy = "SETOP_HASHED"
    /\ ret.path.info.firstFlag = 1
    /\ ret.path.info.flagColIdx = 2
    /\ Len(ret.tlist) = 2
    /\ ret.tlist[2].resjunk

-----------------------------------------------------------------------------
(* Properties of generate_recursion_path, checked under SpecRec *)

\* the range-table indexes of the leaves of a set-operation tree
RECURSIVE LeavesOf(_)
LeavesOf(node) ==
    IF IsA(node, "RangeTblRef") THEN {node.rtindex}
    ELSE LeavesOf(node.larg) \cup LeavesOf(node.rarg)

\* the range-table indexes of the subqueries that a path scans
RECURSIVE ScannedLeaves(_)
ScannedLeaves(path) ==
    IF path.pathtype = "SubqueryScan" THEN {path.info.rtindex}
    ELSE UNION { ScannedLeaves(path.subpaths[i]) : i \in 1..Len(path.subpaths) }

\* the positions in the stack of the call of generate_recursion_path that is
\* at the given phase
RecursionFrames(phase) ==
    { i \in 1..Len(stack) :
        stack[i].fn = "generate_recursion_path" /\ stack[i].phase = phase }

\* the right input is being planned: a call made for it is running or has
\* raised an error, or its result has just come back
RightBranchPlanning ==
    \E i \in RecursionFrames("rarg") : i > 1 \/ pc = "run"

\* C26: generate_recursion_path plans the left input completely before the
\* planning of the right input starts; root->non_recursive_path is the left
\* input's path (with the gather Motion if one was added) all through the
\* planning of the right input and NULL at any other time: while the left
\* input is planned, and once the right input's planning has returned.
C26_NonRecursivePathOnlyForRightBranch ==
    /\ \A i \in RecursionFrames("larg") :
          \A k \in 1..Len(PathsBuilt) :
              ScannedLeaves(PathsBuilt[k]) \cap LeavesOf(stack[i].op.rarg) = {}
    /\ \A i \in RecursionFrames("rarg") :
          /\ ScannedLeaves(stack[i].left.path) = LeavesOf(stack[i].op.larg)
          /\ RightBranchPlanning => root.non_recursive_path = stack[i].left.path
    /\ ~RightBranchPlanning => root.non_recursive_path = NoPath

\* a set operation in the right input is being planned while the gathered
\* path of the left input is exposed
C26_Witness ==
    /\ pc = "run"
    /\ Len(stack) > 3
    /\ RecursionFrames("rarg") # {}
    /\ root.non_recursive_path # NoPath
    /\ root.non_recursive_path.pathtype = "Motion"
    /\ root.non_recursive_path.info = [locus |-> "SingleQE"]

\* the recursive union is planned and the path of its left input is hidden again
C26_WitnessDone ==
    /\ pc = "done"
    /\ root.hasRecursion
    /\ ret.path.pathtype = "RecursiveUnion"
    /\ root.non_recursive_path = NoPath

-----------------------------------------------------------------------------
(* Properties of expand_inherited_rtentry, checked under SpecInh *)

\* expand_inherited_rtentry has returned from its call for RTE inh.rti - 1
Returned == inh # <<>> /\ inh.pc = "loop" /\ inh.rti > 1

LastRti == inh.rti - 1

\* the RTEs that expand_inherited_tables has processed so far
ProcessedRtis ==
    IF inh = <<>> \/ inh.pc \notin {"loop", "done"} THEN {}
    ELSE { r \in 1..inh.nrtes : r < inh.rti }

\* the registered translation records whose parent is RTE r
RecordsOf(r) ==
    LET OfParent(appinfo) == appinfo.parent_relid = r
    IN  SelectSeq(inh.append_rel_list, OfParent)

\* the relations that a list of translation records leads to
ChildOidsOf(appinfos) ==
    [i \in 1..Len(appinfos) |-> inh.rtable[appinfos[i].child_relid].relid]

\* C8, as stated: once expand_inherited_rtentry has returned for a relation
\* RTE, either its marking is clear and no translation record has it as
\* parent, or its marking is set and at least two translation records have it
\* as parent.
C8_ClearedOrAtLeastTwoRecords ==
    \A r \in ProcessedRtis :
        inh.rtable[r].rtekind = "RTE_RELATION" =>
            IF inh.rtable[r].inh
              THEN Len(RecordsOf(r)) >= 2
              ELSE Len(RecordsOf(r)) = 0

\* the ids of a lookup that pass the filter, in lookup order
SurvivingOids(catalog, inhOIDs, parentOID) ==
    LET Survives(id) ==
            /\ ~(id # parentOID /\ id \in catalog.other_temp)
            /\ ~(parentOID \in catalog.partitioned /\ id \notin catalog.leaves)
    IN  SelectSeq(inhOIDs, Survives)

ClearingExits == {"childless", "few_inheritors", "no_appinfos"}

\* the planner state of the call's entry, with the marking of the RTE cleared
EntryStateCleared == [inh.entry EXCEPT !.rtable[LastRti].inh = FALSE]

EntryRowMarksFlagged ==
    [i \in 1..Len(inh.entry.rowMarks) |->
        IF inh.entry.rowMarks[i].rti = LastRti
          THEN [inh.entry.rowMarks[i] EXCEPT !.isParent = TRUE]
          ELSE inh.entry.rowMarks[i]]

ExpectedLock(r) ==
    LET marks == { i \in 1..Len(inh.rowMarks) : inh.rowMarks[i].rti = r }
    IN  IF r = inh.resultRelation THEN "RowExclusiveLock"
        ELSE IF marks = {} THEN "AccessShareLock"
        ELSE IF \E i \in marks : inh.rowMarks[i].canOptSelectLockingClause
          THEN "RowShareLock"
        ELSE "ExclusiveLock"

\* the ids of the lookup made for RTE r, the parent's own (locked by the
\* rewriter) left out
DescendantsOf(r) ==
    LET parentOID == inh.rtable[r].relid
        inhOIDs == inh.catalog.inheritors[parentOID]
    IN  { inhOIDs[i] : i \in 1..Len(inhOIDs) } \ {parentOID}

\* C13: while expand_inherited_rtentry scans the inheritance set, and when it
\* has returned from a scan, the lock mode it uses is the one the parent's
\* role asks for (RowExclusiveLock for the result relation, also when it has a
\* row mark; else ExclusiveLock for a row mark, RowShareLock if the mark can
\* be optimised; else AccessShareLock), every descendant of the lookup was
\* locked in that mode, no lock was taken in another mode, and no descendant
\* is open that was not locked.
C13_LockStrengthByRole ==
    /\ (inh # <<>> /\ inh.pc = "scan") =>
          /\ inh.local.lockmode = ExpectedLock(inh.rti)
          /\ \A id \in DescendantsOf(inh.rti) :
                <<id, ExpectedLock(inh.rti)>> \in inh.locks_acquired
          /\ \A lock \in inh.locks_acquired : lock[2] = ExpectedLock(inh.rti)
    /\ (Returned /\ inh.exit \in {"expanded", "no_appinfos"}) =>
          /\ \A id \in DescendantsOf(LastRti) :
                <<id, ExpectedLock(LastRti)>> \in inh.locks_acquired
          /\ \A lock \in inh.locks_acquired : lock[2] = ExpectedLock(LastRti)
    /\ inh # <<>> =>
          \A id \in RelOids :
              (inh.opens[id] > 0 /\ inh.rtable[1].relid # id) =>
                  \E lock \in inh.locks_acquired : lock[1] = id

\* the parent is the result relation and has a row mark: its children were
\* locked with RowExclusiveLock
C13_Witness ==
    /\ Returned /\ inh.exit = "expanded"
    /\ inh.resultRelation = LastRti
    /\ get_plan_rowmark(inh.rowMarks, LastRti) # 0
    /\ inh.locks_acquired = {<<2, "RowExclusiveLock">>, <<3, "RowExclusiveLock">>}

\* C14: when expand_inherited_rtentry has returned, every lock it acquired
\* on a descendant is still held, for the descendants that got a translation
\* record and for the ones that the filter skipped.
C14_LocksRetained ==
    Returned => inh.locks_acquired \subseteq inh.locks_held

\* C14, for the descendants that got a translation record alone
C14_LocksOfKeptChildrenRetained ==
    Returned =>
        \A i \in 1..Len(inh.append_rel_list) :
            LET id == inh.rtable[inh.append_rel_list[i].child_relid].relid
            IN  \A lock \in inh.locks_acquired : lock[1] = id => lock \in inh.locks_held

\* the ids of the lookup made for RTE r, if one was made and a scan followed
ScannedOids(r) ==
    LET inhOIDs == inh.catalog.inheritors[inh.rtable[r].relid]
    IN  IF inh.exit \in {"expanded", "no_appinfos"}
          THEN { inhOIDs[i] : i \in 1..Len(inhOIDs) }
          ELSE {}

\* C15: no relation handle is closed more often than it was opened; when
\* expand_inherited_rtentry has returned, every handle opened was closed; and
\* when its first call has returned, the parent and every other id of the
\* lookup were opened once and closed once, whether kept or skipped by either
\* filter, and no other relation was opened; without a scan, none was.
C15_HandlesClosedOnce ==
    inh # <<>> =>
        /\ \A id \in RelOids : inh.closes[id] <= inh.opens[id]
        /\ Returned => \A id \in RelOids : inh.closes[id] = inh.opens[id]
        /\ (Returned /\ LastRti = 1) =>
              \A id \in RelOids :
                  inh.opens[id] = IF id \in ScannedOids(LastRti) THEN 1 ELSE 0

\* a partitioned parent, skipped as a non-leaf, one child skipped as a
\* non-leaf and one kept: each was opened and closed once
C15_Witness ==
    /\ Returned /\ inh.exit = "expanded"
    /\ inh.rtable[LastRti].relid \in inh.catalog.partitioned
    /\ Len(RecordsOf(LastRti)) = 1
    /\ \A id \in RelOids : inh.opens[id] = 1 /\ inh.closes[id] = 1

\* the translation records that the call for RTE LastRti registered
RecordsOfCall == IF inh.exit = "expanded" THEN RecordsOf(LastRti) ELSE <<>>

\* the row marks that the call for RTE LastRti added
NewRowMarks == SubSeq(inh.rowMarks, Len(inh.entry.rowMarks) + 1, Len(inh.rowMarks))

\* the mark type that the relation kind of a child and the strength ask for
ChildMarkType(relkind, strength) ==
    IF relkind = RELKIND_FOREIGN_TABLE THEN "ROW_MARK_COPY"
    ELSE IF strength = "LCS_FORSHARE" THEN "ROW_MARK_SHARE"
    ELSE "ROW_MARK_EXCLUSIVE"

\* C16: when expand_inherited_rtentry has returned, the row marks it found
\* are still there, in place.  If the parent had none, none was added.  If it
\* had one, one row mark was added per translation record, in order: for the
\* child's RT index, with the parent's index as prti, the parent's rowmarkId,
\* strength and waitPolicy, not flagged isParent, of the mark type of the
\* child's relkind; and after a scan the parent's mark is flagged isParent and
\* its allMarkTypes holds what it held and the mark type of every child.
C16_RowMarkPerChild ==
    Returned =>
        LET k == get_plan_rowmark(inh.entry.rowMarks, LastRti)
            recs == RecordsOfCall
        IN  /\ Len(inh.rowMarks) >= Len(inh.entry.rowMarks)
            /\ \A i \in 1..Len(inh.entry.rowMarks) :
                  i # k => inh.rowMarks[i] = inh.entry.rowMarks[i]
            /\ k = 0 => NewRowMarks = <<>>
            /\ k # 0 =>
                  LET old == inh.entry.rowMarks[k]
                  IN  /\ Len(NewRowMarks) = Len(recs)
                      /\ \A i \in 1..Len(recs) :
                            LET newrc == NewRowMarks[i]
                                childrte == inh.rtable[recs[i].child_relid]
                            IN  /\ newrc.rti = recs[i].child_relid
                                /\ newrc.prti = LastRti
                                /\ newrc.rowmarkId = old.rowmarkId
                                /\ newrc.strength = old.strength
                                /\ newrc.waitPolicy = old.waitPolicy
                                /\ ~newrc.isParent
                                /\ newrc.markType
                                     = ChildMarkType(childrte.relkind, old.strength)
                                /\ newrc.allMarkTypes = {newrc.markType}
                      /\ inh.rowMarks[k].isParent
                           <=> (old.isParent \/ inh.exit \in {"expanded", "no_appinfos"})
                      /\ inh.rowMarks[k].allMarkTypes
                           = old.allMarkTypes
                             \cup { NewRowMarks[i].markType : i \in 1..Len(recs) }
                      /\ [inh.rowMarks[k] EXCEPT !.isParent = FALSE, !.allMarkTypes = {}]
                           = [old EXCEPT !.isParent = FALSE, !.allMarkTypes = {}]

\* a parent selected FOR UPDATE with a plain child and a foreign-table child
C16_Witness ==
    /\ Returned /\ inh.exit = "expanded"
    /\ get_plan_rowmark(inh.entry.rowMarks, LastRti) # 0
    /\ Len(NewRowMarks) = 3
    /\ inh.rowMarks[1].isParent
    /\ inh.rowMarks[1].allMarkTypes = {"ROW_MARK_EXCLUSIVE", "ROW_MARK_COPY"}

\* expand_inherited_tables has gone through the range table and returned
Expanded == inh # <<>> /\ inh.pc = "done"

\* the positions of the RTEs that the expansion appended
AppendedRtis == (inh.nrtes + 1)..Len(inh.rtable)

\* the registered translation records whose child is RTE r
RecordsInto(r) ==
    LET OfChild(appinfo) == appinfo.child_relid = r
    IN  SelectSeq(inh.append_rel_list, OfChild)

-----------------------------------------------------------------------------
(* Properties of make_inh_translation_list and translate_col_privs, checked  *)
(* under SpecTrans                                                           *)

Translated == call # <<>> /\ callres.outcome \in {"translated", "privs"}

\* child column n is a live column that has the name of parent column i
SameNamed(i, n) ==
    /\ n \in 1..Len(call.new_tupdesc)
    /\ ~call.new_tupdesc[n].attisdropped
    /\ call.new_tupdesc[n].attname = call.old_tupdesc[i].attname

\* child column n has the type, typmod and collation of parent column i
SameTyped(i, n) ==
    /\ call.new_tupdesc[n].atttypid = call.old_tupdesc[i].atttypid
    /\ call.new_tupdesc[n].atttypmod = call.old_tupdesc[i].atttypmod
    /\ call.new_tupdesc[n].attcollation = call.old_tupdesc[i].attcollation

\* some live parent column has no same-named live child column, or the one
\* it has differs in type, typmod or collation
SchemaMismatch ==
    /\ ~call.same_rel
    /\ \E i \in 1..Len(call.old_tupdesc) :
          /\ ~call.old_tupdesc[i].attisdropped
          /\ \/ ~\E n \in 1..Len(call.new_tupdesc) : SameNamed(i, n)
             \/ \E n \in 1..Len(call.new_tupdesc) : SameNamed(i, n) /\ ~SameTyped(i, n)

\* C11: make_inh_translation_list fails exactly on a schema mismatch, and
\* otherwise returns one slot per parent column, in order: slot i is empty iff
\* parent column i is dropped, and otherwise is a Var of the new varno that
\* refers to the live child column named as parent column i (column i itself
\* when the parent is translated onto itself) and carries the parent's type,
\* typmod and collation.
C11_TranslationListPerParentColumn ==
    (call # <<>> /\ callres.outcome # "none") =>
        /\ callres.outcome = "error" <=> SchemaMismatch
        /\ Translated =>
              /\ Len(callres.translated_vars) = Len(call.old_tupdesc)
              /\ \A i \in 1..Len(call.old_tupdesc) :
                    LET v == callres.translated_vars[i]
                        att == call.old_tupdesc[i]
                    IN  /\ v = NullVar <=> att.attisdropped
                        /\ ~att.attisdropped =>
                              /\ v.tag = "Var"
                              /\ v.varno = call.newvarno
                              /\ v.type = att.atttypid
                              /\ v.typmod = att.atttypmod
                              /\ v.collation = att.attcollation
                              /\ SameNamed(i, v.varattno)
                              /\ call.same_rel => v.varattno = i

\* a child with the parent's columns in the other order
C11_Witness ==
    /\ Translated
    /\ ~call.same_rel
    /\ Len(call.old_tupdesc) = 2
    /\ callres.translated_vars[1] # NullVar /\ callres.translated_vars[1].varattno = 2
    /\ callres.translated_vars[2] # NullVar /\ callres.translated_vars[2].varattno = 1

\* the attribute numbers of the system columns
SystemAttnos == (FirstLowInvalidHeapAttributeNumber + 1)..(-1)

\* the slots of the translation list that are not empty
LiveSlots == { i \in 1..Len(callres.translated_vars) : callres.translated_vars[i] # NullVar }

\* the parent set grants the column of slot i, by itself or by the whole row
Granted(i) ==
    \/ PrivBit(InvalidAttrNumber) \in call.parent_privs
    \/ PrivBit(i) \in call.parent_privs

\* C12: the child set of translate_col_privs holds the bit of a system
\* attribute iff the parent set holds it, holds the bit of the child column of
\* a non-empty slot i iff the parent set holds the bit of column i or the
\* whole-row bit, and holds nothing else: not the whole-row bit, and no bit
\* for an empty slot.
C12_ChildPrivsTranslated ==
    (call # <<>> /\ callres.outcome = "privs") =>
        /\ \A attno \in SystemAttnos :
              PrivBit(attno) \in callres.child_privs <=> PrivBit(attno) \in call.parent_privs
        /\ \A i \in LiveSlots :
              PrivBit(callres.translated_vars[i].varattno) \in callres.child_privs
                <=> Granted(i)
        /\ PrivBit(InvalidAttrNumber) \notin callres.child_privs
        /\ \A b \in callres.child_privs :
              \/ \E attno \in SystemAttnos : b = PrivBit(attno)
              \/ \E i \in LiveSlots : b = PrivBit(callres.translated_vars[i].varattno)

\* the whole-row bit and tableoid of a parent with a dropped first column,
\* translated to a child whose only column is b
C12_Witness ==
    /\ call # <<>> /\ callres.outcome = "privs"
    /\ ~call.same_rel
    /\ call.parent_privs = {PrivBit(-7), PrivBit(InvalidAttrNumber)}
    /\ callres.translated_vars[1] = NullVar
    /\ Len(call.old_tupdesc) = 2
    /\ callres.child_privs = {PrivBit(-7), PrivBit(1)}

-----------------------------------------------------------------------------
(* Properties of adjust_appendrel_attrs, checked under SpecAdjust *)

Adjusted == callres # NoResult /\ callres.outcome = "adjusted"

AdjustFailed == callres # NoResult /\ callres.outcome = "error"

\* the addresses that were allocated when the call was made
InputAddrs == 1..Len(call.heap)

TheAppinfo == call.heap[call.appinfo]

\* every pointer that a node holds
Pointers(h, a) ==
    LET n == h[a]
    IN  CASE n.type \in {"OpExpr", "SubPlan", "RowExpr"} -> n.args
          [] n.type = "TargetEntry" -> <<n.expr>>
          [] n.type = "SubLink" -> <<n.subselect>>
          [] n.type = "Query" -> n.targetList
          [] n.type = "ConvertRowtypeExpr" -> <<n.arg>>
          [] n.type = "RestrictInfo" ->
                <<n.clause, n.orclause, n.clause_relids, n.required_relids,
                  n.outer_relids, n.nullable_relids, n.left_relids, n.right_relids,
                  n.left_ec, n.right_ec, n.left_em, n.right_em>> \o n.scansel_cache
          [] OTHER -> <<>>

\* the nodes of the tree below a pointer
RECURSIVE Reachable(_, _)
Reachable(h, a) ==
    IF a = NullNode THEN {}
    ELSE {a} \cup UNION { Reachable(h, Pointers(h, a)[i]) :
                            i \in 1..Len(Pointers(h, a)) }

\* the sub-expressions of a node, the ones that the walk visits
SubExprs(h, a) ==
    IF h[a].type = "RestrictInfo" THEN <<h[a].clause, h[a].orclause>>
    ELSE Pointers(h, a)

\* the depth of the children of a node at depth: a Query below the top adds one
DepthBelow(h, a, depth, top) ==
    IF h[a].type = "Query" /\ ~top THEN depth + 1 ELSE depth

\* the Vars of a tree, each with the number of sub-queries around it
RECURSIVE VarsIn(_, _, _, _)
VarsIn(h, a, depth, top) ==
    IF a = NullNode THEN {}
    ELSE IF h[a].type = "Var" THEN {<<a, depth>>}
    ELSE UNION { VarsIn(h, SubExprs(h, a)[i], DepthBelow(h, a, depth, top), FALSE) :
                   i \in 1..Len(SubExprs(h, a)) }

InputVars == VarsIn(call.heap, call.node, 0, TRUE)

\* the Var of the input at depth refers to the parent at its own level
AtParentLevel(a, depth) ==
    /\ call.heap[a].varno = TheAppinfo.parent_relid
    /\ call.heap[a].varlevelsup = depth

SlotMissing(varattno) ==
    \/ varattno > Len(TheAppinfo.translated_vars)
    \/ TheAppinfo.translated_vars[varattno] = NullNode

\* the input is an UPDATE of the parent, whose target list is renumbered
InheritedUpdate ==
    /\ call.heap[call.node].type = "Query"
    /\ call.heap[call.node].commandType = CMD_UPDATE
    /\ call.heap[call.node].resultRelation = TheAppinfo.parent_relid

\* the relid sets of a RestrictInfo and the links that its flat copy keeps
RelidFields ==
    {"clause_relids", "required_relids", "outer_relids", "nullable_relids",
     "left_relids", "right_relids"}

Members(h, relids) == IF relids = NullNode THEN {} ELSE h[relids].members

RestrictInfosIn(h, a) == { r \in Reachable(h, a) : h[r].type = "RestrictInfo" }

\* what the copy of a RestrictInfo takes over from the original: the relid
\* sets without the parent's id and the equivalence classes
TakenOver ==
    UNION { { call.heap[r][f] : f \in { g \in RelidFields :
                TheAppinfo.parent_relid \notin Members(call.heap, call.heap[r][g]) } }
            \cup {call.heap[r].left_ec, call.heap[r].right_ec} :
            r \in RestrictInfosIn(call.heap, call.node) } \ {NullNode}

InputsUntouched == \A a \in InputAddrs : callres.heap[a] = call.heap[a]

ResultNodes == Reachable(callres.heap, callres.node)

BadRefs ==
    { p \in InputVars : /\ AtParentLevel(p[1], p[2])
                        /\ call.heap[p[1]].varattno > 0
                        /\ SlotMissing(call.heap[p[1]].varattno) }

\* C18: a call whose tree holds a Var of the parent at the matching level with
\* a column number k > 0 that exceeds the slots of the translation record or
\* whose slot is empty fails with 'attribute k does not exist', and so never
\* returns a reference into such a slot; a tree without such a Var (its Vars
\* of the parent are whole-row or system Vars or have a slot) never fails,
\* the renumbering of the target list of an inherited UPDATE aside.
C18_MissingSlotFails ==
    callres # NoResult =>
        /\ BadRefs # {} =>
              /\ AdjustFailed
              /\ \E p \in BadRefs :
                    callres.errmsg = AttributeDoesNotExist(call.heap[p[1]].varattno)
        /\ BadRefs = {} /\ ~InheritedUpdate => Adjusted
        /\ Adjusted => \A r \in ResultNodes :
                          \A i \in 1..Len(SubExprs(callres.heap, r)) :
                              SubExprs(callres.heap, r)[i] = NullNode
                                  => callres.heap[r].type = "RestrictInfo"

\* the call failed on a Var whose slot exists and is empty
C18_Witness ==
    /\ AdjustFailed
    /\ \E p \in BadRefs :
          /\ call.heap[p[1]].varattno <= Len(TheAppinfo.translated_vars)
          /\ callres.errmsg = AttributeDoesNotExist(call.heap[p[1]].varattno)
    /\ \E p \in InputVars : AtParentLevel(p[1], p[2]) /\ call.heap[p[1]].varattno <= 0

Injections(n) ==
    { f \in [1..n -> 1..n] : \A i, j \in 1..n : f[i] = f[j] => i = j }

\* what a Var of the parent at its own level is rewritten to
RewrittenVar(a, b, depth) ==
    LET var == call.heap[a]
        new == callres.heap[b]
        slot(k) == call.heap[TheAppinfo.translated_vars[k]]
        raised(k) == [slot(k) EXCEPT !.varlevelsup = @ + depth]
        child == [var EXCEPT !.varno = TheAppinfo.child_relid,
                             !.varnoold = TheAppinfo.child_relid]
    IN  IF var.varattno > 0 THEN new = raised(var.varattno)
        ELSE IF var.varattno < 0 THEN new = child
        ELSE IF ~OidIsValid(TheAppinfo.child_reltype)
        THEN /\ new.type = "RowExpr"
             /\ Len(new.args) = Len(TheAppinfo.translated_vars)
             /\ \A k \in 1..Len(new.args) : callres.heap[new.args[k]] = raised(k)
        ELSE IF TheAppinfo.child_reltype = TheAppinfo.parent_reltype
        THEN new = child
        ELSE /\ new.type = "ConvertRowtypeExpr"
             /\ callres.heap[new.arg] =
                    [child EXCEPT !.vartype = TheAppinfo.child_reltype]

\* the tree at b is the tree at a with the Vars of the parent at their own
\* level rewritten and every other Var as it was; the target list of the
\* Query at the top may have been re-sorted
RECURSIVE RewrittenAs(_, _, _, _)
RewrittenAs(a, b, depth, top) ==
    IF a = NullNode THEN b = NullNode
    ELSE IF b = NullNode THEN FALSE
    ELSE IF call.heap[a].type = "Var"
    THEN IF AtParentLevel(a, depth) THEN RewrittenVar(a, b, depth)
         ELSE callres.heap[b] = call.heap[a]
    ELSE LET ins == SubExprs(call.heap, a)
             outs == SubExprs(callres.heap, b)
             below == DepthBelow(call.heap, a, depth, top)
         IN  /\ callres.heap[b].type = call.heap[a].type
             /\ Len(outs) = Len(ins)
             /\ \E order \in Injections(Len(ins)) :
                   /\ ~top => \A i \in 1..Len(ins) : order[i] = i
                   /\ \A i \in 1..Len(ins) :
                         RewrittenAs(ins[i], outs[order[i]], below, FALSE)

\* C19: in the result of adjust_appendrel_attrs a Var is rewritten if and
\* only if it refers to the parent and its varlevelsup is the number of
\* sub-queries around it, counted from 0 at the top also when the top is a
\* Query; a rewritten column is the copy of its slot with varlevelsup raised
\* by that number, every other Var is as it was, and sublevels_up is 0 again
\* when the call returns.
C19_RewrittenAtMatchingLevelOnly ==
    Adjusted =>
        /\ RewrittenAs(call.node, callres.node, 0, TRUE)
        /\ callres.sublevels_up = 0

\* a Var inside a sub-query was rewritten at depth 1 and a Var with the same
\* varlevelsup after the sub-query was left alone
C19_Witness ==
    /\ Adjusted
    /\ \E p, q \in InputVars :
          /\ p[2] = 1 /\ AtParentLevel(p[1], 1) /\ call.heap[p[1]].varattno > 0
          /\ q[2] = 0 /\ call.heap[q[1]].varlevelsup = 1
          /\ call.heap[q[1]].varno = TheAppinfo.parent_relid
          /\ q[1] > p[1]
    /\ \E b \in ResultNodes :
          callres.heap[b].type = "Var" /\ callres.heap[b].varlevelsup = 1
              /\ callres.heap[b].varno = TheAppinfo.child_relid

\* the relid set that the translation of S must be
TranslatedRelids(S) ==
    IF TheAppinfo.parent_relid \in S
    THEN (S \ {TheAppinfo.parent_relid}) \cup {TheAppinfo.child_relid}
    ELSE S

\* C20: when a RestrictInfo is translated, each of its relation-id sets that
\* contains the parent's id becomes the set without the parent's id and with
\* the child's id and every other set keeps its members; the sets of the
\* original are not modified; and the cached fields of the translation
\* (evaluation cost, selectivities, bucket sizes, cached members) are reset
\* to 'not computed'.
C20_RestrictInfoRelidsAndCaches ==
    Adjusted /\ call.heap[call.node].type = "RestrictInfo" =>
        LET oldinfo == call.heap[call.node]
            newinfo == callres.heap[callres.node]
        IN  /\ \A f \in RelidFields :
                  /\ Members(callres.heap, newinfo[f])
                         = TranslatedRelids(Members(call.heap, oldinfo[f]))
                  /\ Members(callres.heap, oldinfo[f]) = Members(call.heap, oldinfo[f])
            /\ callres.heap[call.node] = oldinfo
            /\ newinfo.eval_cost.startup = NotComputed
            /\ newinfo.norm_selec = NotComputed
            /\ newinfo.outer_selec = NotComputed
            /\ newinfo.left_bucketsize = NotComputed
            /\ newinfo.right_bucketsize = NotComputed
            /\ newinfo.left_em = NullNode
            /\ newinfo.right_em = NullNode
            /\ newinfo.scansel_cache = <<>>

\* a RestrictInfo with cached values was translated; one of its relid sets
\* held the parent's id and another one did not
C20_Witness ==
    /\ Adjusted
    /\ call.heap[call.node].type = "RestrictInfo"
    /\ call.heap[call.node].norm_selec # NotComputed
    /\ call.heap[call.node].left_em # NullNode
    /\ TheAppinfo.parent_relid \in Members(call.heap, call.heap[call.node].clause_relids)
    /\ Members(call.heap, call.heap[call.node].required_relids) = {MaxRels}
    /\ TheAppinfo.child_relid
           \in Members(callres.heap, callres.heap[callres.node].clause_relids)

\* the SubPlans of the input, each with its copy in the result: the trees are
\* walked side by side, a Var of the input is not entered
RECURSIVE SubPlanPairs(_, _)
SubPlanPairs(a, b) ==
    IF a = NullNode \/ b = NullNode THEN {}
    ELSE IF call.heap[a].type = "Var" THEN {}
    ELSE (IF call.heap[a].type = "SubPlan" THEN {<<a, b>>} ELSE {})
         \cup UNION { SubPlanPairs(SubExprs(call.heap, a)[i],
                                   SubExprs(callres.heap, b)[i]) :
                        i \in 1..Len(SubExprs(call.heap, a)) }

ClonedPairs ==
    { p \in SubPlanPairs(call.node, callres.node) : ~call.heap[p[1]].is_initplan }

-----------------------------------------------------------------------------
(* Properties of generate_append_tlist and generate_setop_grouplist, checked *)
(* under SpecTlist                                                           *)

AppendTlistBuilt == call.fn = "generate_append_tlist" /\ callres # NoResult

\* the expressions of column i of the input target lists, resjunk entries skipped
SiblingExprs(i) ==
    [k \in 1..Len(call.input_tlists) |-> NonJunk(call.input_tlists[k])[i].expr]

\* every input has the declared type in column i and all have one typmod
SiblingsAgree(i) ==
    \A k \in 1..Len(call.input_tlists) :
        /\ exprType(SiblingExprs(i)[k]) = call.colTypes[i]
        /\ exprTypmod(SiblingExprs(i)[k]) = exprTypmod(SiblingExprs(i)[1])

\* C24: generate_append_tlist gives output column i the typmod m if the i-th
\* non-resjunk expression of every input target list has the declared type of
\* column i and all of them have the typmod m, and -1 otherwise; the result
\* is the same for every order of the input target lists.
C24_TypmodKeptIffAllAgree ==
    AppendTlistBuilt =>
        /\ \A i \in 1..Len(call.colTypes) :
              exprTypmod(callres.tlist[i].expr)
                = IF SiblingsAgree(i) THEN exprTypmod(SiblingExprs(i)[1]) ELSE -1
        /\ \A perm \in Permutations(1..Len(call.input_tlists)) :
              generate_append_tlist(call.colTypes, call.colCollations, call.flag,
                  [k \in 1..Len(call.input_tlists) |-> call.input_tlists[perm[k]]],
                  call.refnames_tlist) = callres.tlist

\* three inputs of which only the middle one has another type than declared,
\* the outer two agreeing on a typmod: the column gets -1
C24_Witness ==
    /\ AppendTlistBuilt
    /\ Len(call.input_tlists) = 3
    /\ exprType(SiblingExprs(1)[1]) = call.colTypes[1]
    /\ exprType(SiblingExprs(1)[2]) # call.colTypes[1]
    /\ exprType(SiblingExprs(1)[3]) = call.colTypes[1]
    /\ exprTypmod(SiblingExprs(1)[1]) = 2
    /\ exprTypmod(SiblingExprs(1)[3]) = 2
    /\ exprTypmod(callres.tlist[1].expr) = -1

GrouplistCalled == call.fn = "generate_setop_grouplist" /\ callres # NoResult

-----------------------------------------------------------------------------
(* Properties of choose_hashed_setop, checked under SpecChoose *)

ChCalled == chres # NoResult

\* the hash-table footprint of the call and the memory ceiling, in bytes
ChFootprint ==
    (((ch.input_path.width + 7) \div 8) * 8 + 16) * ch.dNumGroups

ChCeiling == ch.env.work_mem * 1024

ChCanHash == \A i \in 1..Len(ch.groupClauses) : ch.groupClauses[i].hashable

ChCanSort == \A i \in 1..Len(ch.groupClauses) : ch.groupClauses[i].sortable

\* the fraction the two costs are adjusted by
ChFraction == DecisionFraction(ch.root.tuple_fraction, ch.dNumOutputRows)

ChHashedCost == AdjustedCost(ch.env.hashed_p, ChFraction)

ChSortedCost == AdjustedCost(ch.env.sorted_p, ChFraction)

\* C3, as stated: hashing is never selected when the hash-table footprint
\* exceeds work_mem, for every combination of operator capabilities, settings
\* and costs.
C3_NeverHashOverCeiling ==
    (ChCalled /\ ChFootprint > ChCeiling) => chres.outcome # "hash"

\* C3, amended: when the footprint exceeds work_mem, hashing is selected if and
\* only if the grouping operators support hashing and do not support sorting;
\* so it is never selected over the ceiling when sorting is possible.
C3_NoHashOverCeilingIfSortable ==
    (ChCalled /\ ChFootprint > ChCeiling) =>
        (chres.outcome = "hash" <=> (ChCanHash /\ ~ChCanSort))

\* a call where both are supported, hashing is enabled and cheaper, and the
\* footprint alone forces sorting
C3_Witness ==
    /\ ChCalled /\ ChCanHash /\ ChCanSort /\ ch.env.enable_hashagg
    /\ ChFootprint > ChCeiling
    /\ ChHashedCost < ChSortedCost
    /\ chres.outcome = "sort"

\* C4: operators that support hashing only always give "hash", operators that
\* support sorting only always give "sort", whatever the other inputs are;
\* operators that support neither give an error that names the construct, and
\* no decision.
C4_SingleCapabilityUnconditional ==
    ChCalled =>
        /\ (ChCanHash /\ ~ChCanSort) => chres = Decision("hash", NoError)
        /\ (~ChCanHash /\ ChCanSort) => chres = Decision("sort", NoError)
        /\ (~ChCanHash /\ ~ChCanSort) =>
              chres = Decision("error", <<"could not implement", ch.construct>>)

\* hashing only, selected although hashing is disabled and the table overruns
C4_Witness ==
    /\ ChCalled /\ ChCanHash /\ ~ChCanSort
    /\ ~ch.env.enable_hashagg
    /\ ChFootprint > ChCeiling
    /\ ChSortedCost < ChHashedCost
    /\ chres.outcome = "hash"

=============================================================================
